---- MODULE Spec2Model ----
(***************************************************************************)
(* The risk/decision core of trading-helper: the TradeManager cycle        *)
(* (src/src/gas/TradeManager.ts), the V2Trader ticker                      *)
(* (src/apps-script/Trader.ts and the copy in src/src/gas/dao/Config.ts)   *)
(* and the stop-limit calculator.                                          *)
(*                                                                         *)
(* Numbers: money and prices are integers; a quantity q of coins is the    *)
(* integer q * QtyScale; a ratio r (ChannelSize, K, a profit fraction) is  *)
(* the integer r * RatioScale; divisions round towards minus infinity.     *)
(***************************************************************************)
EXTENDS Integers, Sequences, FiniteSets, TLC

VARIABLES
  trades,             \* the ledger store: coin name -> TradeMemo
  storedConfig,       \* the persisted Config (ConfigDao's store entry)
  config,             \* TradeManager.#config, the copy read at cycle start
  canInvest,          \* TradeManager.#canInvest
  balance,            \* TradeManager.#balance
  optimalInvestRatio, \* TradeManager.#optimalInvestRatio
  feed,               \* the price provider's snapshot: coin -> price or NoPrice
  pc,                 \* position of the running handler
  queue,              \* trade(): the records (tms) still to be processed
  cycle,              \* completed cycles
  calls,              \* gateway calls made by the latest step, in order
  stats,              \* Statistics: addProfit calls (count and total)
  isNode,             \* browser-or-node: back-testing (TRUE) or production
  last,               \* the ledger record a step started from and its result
  start,              \* what the running cycle started from
  sellFailed,         \* coins with a failed sell since their last buy
  sl                  \* one position record driven tick by tick (SpecStop)

vars ==
  <<trades, storedConfig, config, canInvest, balance, optimalInvestRatio,
    feed, pc, queue, cycle, calls, stats, isNode, last, start, sellFailed, sl>>

----------------------------------------------------------------------------
(* Bounds of the model *)

MaxCycles == 2

(* Scales of the fixed-point representation *)
QtyScale == 10 ^ 3
RatioScale == 10 ^ 4

(* Inputs *)
CoinOrder == <<"ADA", "BTC">>
Coins == {CoinOrder[i] : i \in 1..Len(CoinOrder)}
NoPrice == 0
Prices == {8, 10, 12}
FeedPrices == [c \in Coins |-> IF c = CoinOrder[1] THEN {8, 12} ELSE {10}]
ChannelMins == {9}
StartBalances == {-1, 20}
ExchangeBalances == {10, 40}
CandidateCounts == {1, 5}
TradeActions == {"None", "Buy", "Sell"}

(* Program constants *)
MIN_BUSD_BUY == 15
PriceMemoSize == 3

Min(a, b) == IF a < b THEN a ELSE b
Max(a, b) == IF a > b THEN a ELSE b

----------------------------------------------------------------------------
(* DefaultConfig *)
DefaultConfig ==
  [ StableBalance |-> -1,
    SellAtStopLimit |-> TRUE,
    ChannelSize |-> 2500,
    ChannelWindowMins |-> 4500,
    FearGreedIndex |-> 2 ]

(* ConfigDao.get / ConfigDao.set *)
ConfigDaoGet(store) == store
ConfigDaoSet(cfg) == cfg

----------------------------------------------------------------------------
(* TradeResult and TradeMemo (lib) *)

NewTradeResult ==
  [ quantity |-> 0, paid |-> 0, price |-> 0, commission |-> 0,
    gained |-> 0, profit |-> 0, fromExchange |-> FALSE ]

NewTradeMemo(tr) ==
  [ tradeResult |-> tr, state |-> "IDLE", prices |-> <<>>,
    stopLimitPrice |-> 0, ttl |-> 0, hodl |-> FALSE, deleted |-> FALSE,
    maxObservedPrice |-> 0 ]

stateIs(tm, s) == tm.state = s
setState(tm, s) == [tm EXCEPT !.state = s]
resetState(tm) == [tm EXCEPT !.state = "IDLE"]

currentPrice(tm) ==
  IF tm.prices = <<>> THEN 0 ELSE tm.prices[Len(tm.prices)]

prevPrice(tm) ==
  IF Len(tm.prices) < 2 THEN currentPrice(tm) ELSE tm.prices[Len(tm.prices) - 1]

LastN(s, n) == IF Len(s) <= n THEN s ELSE SubSeq(s, Len(s) - n + 1, Len(s))

RECURSIVE SeqSum(_)
SeqSum(s) == IF s = <<>> THEN 0 ELSE s[1] + SeqSum(Tail(s))

pushPrice(tm, price) ==
  [tm EXCEPT !.prices = LastN(Append(@, price), PriceMemoSize),
             !.maxObservedPrice = Max(@, price)]

(* PriceMove: DOWN < FLAT < UP *)
DOWN == 0 - 1
FLAT == 0
UP == 0 + 1

getPriceMove(tm) ==
  LET p == LastN(tm.prices, 3)
      n == Len(p)
  IN  IF n >= 2 /\ \A i \in 2..n : p[i] > p[i - 1] THEN UP
      ELSE IF n >= 2 /\ \A i \in 2..n : p[i] < p[i - 1] THEN DOWN
      ELSE FLAT

profit(tm) ==
  (currentPrice(tm) * tm.tradeResult.quantity) \div QtyScale - tm.tradeResult.paid

stopLimitCrossedDown(tm) ==
  /\ currentPrice(tm) < tm.stopLimitPrice
  /\ prevPrice(tm) >= tm.stopLimitPrice

(* mutant: level-triggered, true on every tick above the profit limit *)
profitLimitCrossedUp_Level(tm, profitLimit) ==
  currentPrice(tm) * RatioScale > tm.tradeResult.price * (RatioScale + profitLimit)

(* currentPrice > price * (1 + profitLimit) and the sample before it is not *)
profitLimitCrossedUp(tm, profitLimit) ==
  /\ currentPrice(tm) * RatioScale
       > tm.tradeResult.price * (RatioScale + profitLimit)
  /\ prevPrice(tm) * RatioScale
       <= tm.tradeResult.price * (RatioScale + profitLimit)

lossLimitCrossedDown(tm) ==
  /\ currentPrice(tm) < tm.stopLimitPrice
  /\ prevPrice(tm) >= tm.stopLimitPrice

entryPriceCrossedUp(tm) ==
  /\ currentPrice(tm) > tm.tradeResult.price
  /\ prevPrice(tm) <= tm.tradeResult.price

joinWithNewTrade(tm, tr) ==
  LET q == tm.tradeResult.quantity + tr.quantity
      p == tm.tradeResult.paid + tr.paid
  IN  [tm EXCEPT !.tradeResult =
        [ quantity |-> q, paid |-> p,
          price |-> IF q = 0 THEN 0 ELSE (p * QtyScale) \div q,
          commission |-> tm.tradeResult.commission + tr.commission,
          gained |-> 0, profit |-> 0, fromExchange |-> TRUE ]]

----------------------------------------------------------------------------
(* Exchange gateway (IExchange): the result objects of marketBuy/marketSell *)

(* marketBuy filling the order for cost + over: the result reports the     *)
(* amount paid, which the gateway computes from its own fills               *)
marketBuyPaying(cost, price, ok, over) ==
  IF ok /\ price # NoPrice
  THEN [ quantity |-> ((cost + over) * QtyScale) \div price,
         paid |-> cost + over,
         price |-> price, commission |-> 0, gained |-> 0, profit |-> 0,
         fromExchange |-> TRUE ]
  ELSE NewTradeResult

marketBuy(cost, price, ok) == marketBuyPaying(cost, price, ok, 0)

marketSell(quantity, price, ok) ==
  IF ok /\ price # NoPrice
  THEN [ quantity |-> 0, paid |-> 0, price |-> price, commission |-> 0,
         gained |-> (quantity * price) \div QtyScale, profit |-> 0,
         fromExchange |-> TRUE ]
  ELSE NewTradeResult

BuyCall(coin, cost, res, x) ==
  [ kind |-> "buy", coin |-> coin, arg |-> cost, ok |-> res.fromExchange,
    paid |-> res.paid, gained |-> 0,
    balance |-> x.balance, canInvest |-> x.canInvest, profits |-> x.stats.n ]

SellCall(coin, quantity, res, x) ==
  [ kind |-> "sell", coin |-> coin, arg |-> quantity, ok |-> res.fromExchange,
    paid |-> 0, gained |-> res.gained,
    balance |-> x.balance, canInvest |-> x.canInvest, profits |-> x.stats.n ]

----------------------------------------------------------------------------
(* TradeManager: the stop-limit calculator *)

(* mutant: the current price in place of the average of the last 3 *)
avePriceSum_CurrentOnly(tm) == 3 * currentPrice(tm)

avePriceSum(tm) == SeqSum(LastN(tm.prices, 3))

(* mutant: K * avePrice without the cap by the current price *)
StopLimitByProfit_NoCap(tm, cfg) ==
  LET CS == cfg.ChannelSize
      FGI == cfg.FearGreedIndex
      PG == (CS * 9) \div (10 * FGI)
      P == (profit(tm) * RatioScale) \div tm.tradeResult.paid
      K == Min(9900, RatioScale - CS + Max(0, (P * CS) \div PG))
  IN  (K * avePriceSum(tm)) \div (3 * RatioScale)

(* K * avePrice and k2 * avePrice, each capped by the current price *)
StopLimitByProfit(tm, cfg) ==
  LET CS == cfg.ChannelSize
      FGI == cfg.FearGreedIndex
      PG == (CS * 9) \div (10 * FGI)
      P == (profit(tm) * RatioScale) \div tm.tradeResult.paid
      K == Min(9900, RatioScale - CS + Max(0, (P * CS) \div PG))
  IN  Min((K * avePriceSum(tm)) \div (3 * RatioScale), currentPrice(tm))

(* mutant: the stop limit without the rule that raises it with the ttl *)
StopLimitByTTL_Never(tm, cfg) == 0

StopLimitByTTL(tm, cfg) ==
  LET FGI == cfg.FearGreedIndex
      CWM == cfg.ChannelWindowMins
      \* curTTL / maxTTL = min(ttl, CWM / FGI) / (CWM / FGI)
      curTTL == Min(tm.ttl * FGI, CWM)
      k2Ave == IF 100 * curTTL >= 99 * CWM
               THEN (99 * avePriceSum(tm)) \div 300
               ELSE (curTTL * avePriceSum(tm)) \div (3 * CWM)
  IN  Min(k2Ave, currentPrice(tm))

(* mutant: the new candidates replace the stop limit instead of raising it *)
updateStopLimit_NoRatchet(tm, cfg, chMin) ==
  IF tm.stopLimitPrice = 0
  THEN [tm EXCEPT !.stopLimitPrice = chMin]
  ELSE [tm EXCEPT !.stopLimitPrice =
          Max(StopLimitByProfit(tm, cfg), StopLimitByTTL(tm, cfg))]

updateStopLimit(tm, cfg, chMin) ==
  IF tm.stopLimitPrice = 0
  THEN [tm EXCEPT !.stopLimitPrice = chMin]
  ELSE [tm EXCEPT !.stopLimitPrice =
          Max(Max(@, StopLimitByProfit(tm, cfg)), StopLimitByTTL(tm, cfg))]

forceUpdateStopLimit(tm, cfg, chMin) ==
  updateStopLimit([tm EXCEPT !.ttl = 0, !.stopLimitPrice = 0], cfg, chMin)

(* TradeManager.processBoughtState *)
processBoughtState(tm, cfg, chMin) ==
  LET t1 == updateStopLimit([tm EXCEPT !.ttl = @ + 1], cfg, chMin)
  IN  IF stopLimitCrossedDown(t1) /\ cfg.SellAtStopLimit
      THEN setState(t1, "SELL")
      ELSE t1

----------------------------------------------------------------------------
(* TradeManager: the step context x = [coin, tm, canInvest, balance,       *)
(* ratio, calls, stats] threaded through the calls of one #checkTrade      *)

addProfit(st, amount) == [n |-> st.n + 1, total |-> st.total + amount]

(* mutant: the profit added whatever the settlement asset is *)
updatePLStatistics_Always(st, stable, prof) == addProfit(st, prof)

(* TradeManager.updatePLStatistics; stable: StableUSDCoin[gainedCoin] *)
updatePLStatistics(st, stable, prof) ==
  IF stable THEN addProfit(st, prof) ELSE st

(* mutant: a sell that frees no investment slot *)
CanInvestAfterSell_NoCredit(ratio, ci) == Min(ratio, ci)

(* #sell, lines 347-350 *)
CanInvestAfterSell(ratio, ci) == Min(ratio, ci + 1)

(* TradeManager.#sell, given the gateway's result, the profit computed    *)
(* from it and whether the settlement asset is a stable coin               *)
SellResult(x, res, prof, stable) ==
  LET x1 == [x EXCEPT !.calls =
               Append(@, SellCall(x.coin, x.tm.tradeResult.quantity, res, x))]
  IN  IF res.fromExchange
      THEN [x1 EXCEPT
              !.canInvest = CanInvestAfterSell(x.ratio, @),
              !.balance = @ + res.gained,
              !.stats = updatePLStatistics(@, stable, prof),
              !.tm = [x.tm EXCEPT
                        !.tradeResult = [res EXCEPT !.profit = prof],
                        !.state = "SOLD",
                        !.ttl = 0,
                        !.deleted = TRUE]]
      ELSE [x1 EXCEPT !.tm = [x.tm EXCEPT !.state = "BOUGHT",
                                          !.deleted = FALSE]]

(* TradeManager.#sell for the configured stable coin (BUSD), the gateway   *)
(* charging no commission: processSellFee returns 0                        *)
Sell(x, price, ok) ==
  LET res == marketSell(x.tm.tradeResult.quantity, price, ok)
      fee == 0
  IN  SellResult(x, res, res.gained - x.tm.tradeResult.paid - fee, TRUE)

(* The coins whose latest gateway sell failed, after the calls of a step *)
RECURSIVE FailedAfter(_, _)
FailedAfter(failed, cs) ==
  IF cs = <<>> THEN failed
  ELSE LET c == cs[1]
           f1 == IF c.kind = "sell" /\ ~c.ok THEN failed \cup {c.coin}
                 ELSE IF c.ok THEN failed \ {c.coin}
                 ELSE failed
       IN  FailedAfter(f1, Tail(cs))

(* mutant: a failed buy leaves the record requested *)
BuyFailed_StaysRequested(x) == x

(* #buy, lines 328-332: the gateway has not executed the order *)
BuyFailed(x) == [x EXCEPT !.tm = resetState(@)]

(* TradeManager.#buy, given the gateway's result *)
BuyResult(x, cost, res, cfg, chMin) ==
  LET x1 == [x EXCEPT !.calls = Append(@, BuyCall(x.coin, cost, res, x))]
  IN  IF res.fromExchange
      THEN [x1 EXCEPT
              !.canInvest = Max(0, @ - 1),
              !.balance = @ - res.paid,
              !.tm = setState(
                       forceUpdateStopLimit(
                         joinWithNewTrade([x.tm EXCEPT !.prices = <<res.price>>],
                                          res),
                         cfg, chMin),
                       "BOUGHT")]
      ELSE BuyFailed(x1)

(* TradeManager.#buy *)
Buy(x, cost, price, ok, cfg, chMin) ==
  BuyResult(x, cost, marketBuy(cost, price, ok), cfg, chMin)

(* mutant: the spend proposed whether or not the record holds quantity *)
calculateQuantity_IgnoresHeld(x) ==
  IF x.canInvest <= 0
  THEN 0
  ELSE Max(MIN_BUSD_BUY, x.balance \div x.canInvest)

(* mutant: the spend without the MIN_BUSD_BUY floor *)
calculateQuantity_NoFloor(x) ==
  IF x.canInvest <= 0 \/ x.tm.tradeResult.quantity > 0
  THEN 0
  ELSE x.balance \div x.canInvest

(* TradeManager.#calculateQuantity *)
calculateQuantity(x) ==
  IF x.canInvest <= 0 \/ x.tm.tradeResult.quantity > 0
  THEN 0
  ELSE Max(MIN_BUSD_BUY, x.balance \div x.canInvest)

(* mutant: the guard without the balance check *)
CanBuy_NoBalanceCheck(howMuch, bal) == howMuch > 0

(* TradeManager.#checkTrade: the guard of the buy *)
CanBuy(howMuch, bal) == howMuch > 0 /\ howMuch <= bal

(* TradeManager.pushNewPrice *)
pushNewPrice(x, price, node, okSell) ==
  IF price # NoPrice
  THEN [x EXCEPT !.tm = pushPrice(@, price)]
  ELSE IF x.tm.tradeResult.quantity # 0 /\ node
       THEN Sell(x, currentPrice(x.tm), okSell)
       ELSE x

(* mutant: a requested sell is executed whatever the price does *)
SellGate_Open(tm) == TRUE

(* #checkTrade, line 189: the stop limit is crossed down or the price does *)
(* not go up any more                                                      *)
SellGate(tm) == stopLimitCrossedDown(tm) \/ getPriceMove(tm) < UP

(* #checkTrade, line 196: the price stopped going down *)
BuyGate(tm) == getPriceMove(tm) > DOWN

(* TradeManager.#checkTrade, the gateway paying cost + over for a buy *)
checkTradePaying(x, price, node, okPush, ok, cfg, chMin, over) ==
  LET x1 == pushNewPrice(x, price, node, okPush)
      x2 == IF x1.tm.tradeResult.quantity > 0
            THEN [x1 EXCEPT !.tm = processBoughtState(@, cfg, chMin)]
            ELSE x1
      sellPrice == IF price # NoPrice THEN price ELSE currentPrice(x2.tm)
  IN  IF stateIs(x2.tm, "SELL") /\ SellGate(x2.tm)
      THEN Sell(x2, sellPrice, ok)
      ELSE IF stateIs(x2.tm, "BUY") /\ BuyGate(x2.tm)
           THEN LET howMuch == calculateQuantity(x2)
                IN  IF CanBuy(howMuch, x2.balance)
                    THEN BuyResult(x2, howMuch,
                                   marketBuyPaying(howMuch, price, ok, over),
                                   cfg, chMin)
                    ELSE [x2 EXCEPT !.tm = resetState(@)]
           ELSE x2

(* TradeManager.#checkTrade *)
checkTrade(x, price, node, okPush, ok, cfg, chMin) ==
  checkTradePaying(x, price, node, okPush, ok, cfg, chMin, 0)

----------------------------------------------------------------------------
(* The ledger store (TradesDao) *)

NoTrades == [c \in {} |-> NewTradeMemo(NewTradeResult)]

Put(tr, coin, tm) ==
  [c \in DOMAIN tr \cup {coin} |-> IF c = coin THEN tm ELSE tr[c]]

Remove(tr, coin) == [c \in DOMAIN tr \ {coin} |-> tr[c]]

(* TradesDao.update: the write-back of the mutator's result *)
DaoWrite(tr, coin, tm) ==
  IF tm.deleted THEN Remove(tr, coin) ELSE Put(tr, coin, tm)

noInvestments(tr) == \A c \in DOMAIN tr : tr[c].tradeResult.quantity = 0

(* TradesDao.getList in the order trade() sorts it to *)
Orders(node) ==
  LET n == Len(CoinOrder)
      perms == {f \in [1..n -> 1..n] : \A i, j \in 1..n : f[i] = f[j] => i = j}
  IN  IF node
      THEN {CoinOrder}
      ELSE {[i \in 1..n |-> CoinOrder[f[i]]] : f \in perms}

RECURSIVE SelectSeq2(_, _, _)
SelectSeq2(s, tr, wantBuy) ==
  IF s = <<>> THEN <<>>
  ELSE LET keep == /\ s[1] \in DOMAIN tr
                   /\ (stateIs(tr[s[1]], "BUY") <=> wantBuy)
       IN  (IF keep THEN <<s[1]>> ELSE <<>>) \o SelectSeq2(Tail(s), tr, wantBuy)

(* mutant: the records requested to buy first *)
ProcessingOrder_BuyFirst(order, tr) ==
  SelectSeq2(order, tr, TRUE) \o SelectSeq2(order, tr, FALSE)

(* trade(): existing trades first, then those requested to buy *)
ProcessingOrder(order, tr) ==
  SelectSeq2(order, tr, FALSE) \o SelectSeq2(order, tr, TRUE)

(* TradeManager.#setBuyState *)
setBuyState(tr, coin, price) ==
  IF coin \in DOMAIN tr
  THEN Put(tr, coin, setState(tr[coin], "BUY"))
  ELSE Put(tr, coin,
           setState([NewTradeMemo(NewTradeResult) EXCEPT
                       !.prices = IF price = NoPrice THEN <<>> ELSE <<price>>],
                    "BUY"))

(* mutant: SELL set on every existing record *)
setSellState_Any(tr, coin) ==
  IF coin \in DOMAIN tr
  THEN Put(tr, coin, setState(tr[coin], "SELL"))
  ELSE tr

(* TradeManager.#setSellState *)
setSellState(tr, coin) ==
  IF coin \in DOMAIN tr /\ tr[coin].tradeResult.quantity > 0
  THEN Put(tr, coin, setState(tr[coin], "SELL"))
  ELSE tr

(* trade(): the plugin's actions applied coin by coin *)
RECURSIVE ApplySignals(_, _, _, _)
ApplySignals(tr, sig, f, coins) ==
  IF coins = <<>> THEN tr
  ELSE LET c == coins[1]
           tr1 == IF sig[c] = "Buy" THEN setBuyState(tr, c, f[c])
                  ELSE IF sig[c] = "Sell" THEN setSellState(tr, c)
                  ELSE tr
       IN  ApplySignals(tr1, sig, f, Tail(coins))

(* TradeManager.#initBalance *)
initBalance(cfg, exchangeBalance) ==
  IF cfg.StableBalance = -1 THEN exchangeBalance ELSE cfg.StableBalance

(* trade(): optimalInvestRatio *)
OptimalInvestRatio(n) == Max(2, Min(4, n))

(* mutant: canInvest reset at every cycle start *)
CanInvestAtStart_AlwaysReset(tr, ratio, ci) == ratio

(* trade(): canInvest at cycle start *)
CanInvestAtStart(tr, ratio, ci) == IF noInvestments(tr) THEN ratio ELSE ci

(* the price provider's snapshots *)
Feeds == {f \in [Coins -> Prices \cup {NoPrice}] :
            \A c \in Coins : f[c] \in FeedPrices[c] \cup {NoPrice}}

NoLast == [coin |-> "", ran |-> FALSE]
NoSignals == [c \in Coins |-> "None"]
NoRecord == [engine |-> "none"]
NoStart ==
  [ empty |-> FALSE, candidates |-> 0, balance |-> 0, stored |-> 0,
    canInvest |-> 0, withdrawn |-> 0, faulted |-> {}, held |-> FALSE,
    previous |-> 0, signals |-> NoSignals ]

(* A ledger persisted by an earlier run: the first coin bought for          *)
(* MIN_BUSD_BUY at price 12 under the default configuration                 *)
HeldLedger ==
  LET x0 == [ coin |-> CoinOrder[1],
              tm |-> setState(NewTradeMemo(NewTradeResult), "BUY"),
              canInvest |-> 2, balance |-> MIN_BUSD_BUY, ratio |-> 2,
              calls |-> <<>>, stats |-> [n |-> 0, total |-> 0] ]
  IN  Put(NoTrades, CoinOrder[1],
          Buy(x0, MIN_BUSD_BUY, 12, TRUE, DefaultConfig, 9).tm)

----------------------------------------------------------------------------
(* TradeManager: one cycle, trade(), step by step *)

Init ==
  /\ trades \in {NoTrades, HeldLedger}
  /\ \E b \in StartBalances :
       storedConfig = [DefaultConfig EXCEPT !.StableBalance = b]
  /\ config = storedConfig
  /\ canInvest = 0
  /\ balance = 0
  /\ optimalInvestRatio = 0
  /\ feed = [c \in Coins |-> NoPrice]
  /\ pc = "idle"
  /\ queue = <<>>
  /\ cycle = 0
  /\ calls = <<>>
  /\ stats = [n |-> 0, total |-> 0]
  /\ isNode \in BOOLEAN
  /\ last = NoLast
  /\ start = NoStart
  /\ sellFailed = {}
  /\ sl = NoRecord

(* trade(), lines 63-105: config, balance, invest ratio, signals, order;   *)
(* with noting the plugin's signals are kept in start.signals              *)
TradeStartNoting(maxCycles, noting) ==
  /\ pc = "idle"
  /\ cycle < maxCycles
  /\ \E f \in Feeds, n \in CandidateCounts,
        sig \in [Coins -> TradeActions], order \in Orders(isNode) :
       LET cfg == ConfigDaoGet(storedConfig) IN
       \E xb \in IF cfg.StableBalance = -1 THEN ExchangeBalances ELSE {0} :
         LET ratio == OptimalInvestRatio(n)
             tr1 == ApplySignals(trades, sig, f, CoinOrder)
         IN  /\ config' = cfg
             /\ balance' = initBalance(cfg, xb)
             /\ optimalInvestRatio' = ratio
             /\ canInvest' = CanInvestAtStart(trades, ratio, canInvest)
             /\ trades' = tr1
             /\ feed' = f
             /\ queue' = ProcessingOrder(order, tr1)
             /\ start' = [empty |-> trades = NoTrades, candidates |-> n,
                          balance |-> initBalance(cfg, xb),
                          stored |-> cfg.StableBalance,
                          canInvest |-> CanInvestAtStart(trades, ratio,
                                                         canInvest),
                          withdrawn |-> 0, faulted |-> {},
                          held |-> ~noInvestments(trades),
                          previous |-> IF noInvestments(trades) THEN 0
                                       ELSE canInvest,
                          signals |-> IF noting THEN sig ELSE NoSignals]
  /\ pc' = "trade"
  /\ calls' = <<>>
  /\ last' = NoLast
  /\ UNCHANGED <<storedConfig, cycle, stats, isNode, sellFailed, sl>>

TradeStartUpTo(maxCycles) == TradeStartNoting(maxCycles, FALSE)

TradeStart == TradeStartUpTo(MaxCycles)

(* trade(), lines 106-113: tradesDao.update(coin, #checkTrade) for one tm, *)
(* the gateway paying cost + over for a buy, over drawn from overs         *)
CheckTradeWith(overs) ==
  /\ pc = "trade"
  /\ queue # <<>>
  /\ LET c == Head(queue) IN
     \E okPush \in BOOLEAN, ok \in BOOLEAN, chMin \in ChannelMins,
        over \in overs :
       LET x0 == [ coin |-> c, tm |-> trades[c], canInvest |-> canInvest,
                   balance |-> balance, ratio |-> optimalInvestRatio,
                   calls |-> <<>>, stats |-> stats ]
           x == checkTradePaying(x0, feed[c], isNode, okPush, ok, config,
                                 chMin, over)
       IN  /\ trades' = DaoWrite(trades, c, x.tm)
           /\ canInvest' = x.canInvest
           /\ balance' = x.balance
           /\ calls' = x.calls
           /\ stats' = x.stats
           /\ sellFailed' = FailedAfter(sellFailed, x.calls)
           /\ last' = [coin |-> c, ran |-> TRUE, before |-> trades[c],
                       after |-> x.tm]
  /\ queue' = Tail(queue)
  /\ UNCHANGED <<storedConfig, config, optimalInvestRatio, feed, pc, cycle,
                 isNode, start, sl>>

CheckTradeStep == CheckTradeWith({0})

(* mutant: the delta added to the configuration read at cycle start *)
persistedConfig_Stale(cfg, fresh, diff) ==
  [cfg EXCEPT !.StableBalance = @ + diff]

(* #persistBalance, lines 142-144: the delta added to the fresh read *)
persistedConfig(cfg, fresh, diff) ==
  [fresh EXCEPT !.StableBalance = @ + diff]

(* TradeManager.#persistBalance, at the end of trade() *)
PersistBalance ==
  /\ pc = "trade"
  /\ queue = <<>>
  /\ LET diff == balance - config.StableBalance
         fresh == ConfigDaoGet(storedConfig)
         cfg == persistedConfig(config, fresh, diff)
     IN  IF diff # 0
         THEN /\ config' = cfg
              /\ balance' = cfg.StableBalance
              /\ storedConfig' = ConfigDaoSet(cfg)
         ELSE UNCHANGED <<config, balance, storedConfig>>
  /\ pc' = "idle"
  /\ cycle' = cycle + 1
  /\ calls' = <<>>
  /\ last' = [coin |-> "", ran |-> FALSE, withdrawn |-> start.withdrawn]
  /\ feed' = [c \in Coins |-> NoPrice]
  /\ start' = NoStart
  /\ UNCHANGED <<trades, canInvest, optimalInvestRatio, queue, stats, isNode,
                 sellFailed, sl>>

Next == TradeStart \/ CheckTradeStep \/ PersistBalance

Spec == Init /\ [][Next]_vars

----------------------------------------------------------------------------
(* The cycle in its environment: a gateway whose fills differ from the     *)
(* requested cost, a fault inside a record's step, and a withdrawal        *)
(* committed by WithdrawalsManager while the cycle runs                    *)

MaxRounds == 1
PaidExcess == {0, 1}
Withdrawals == {5}

(* mutant: no try/catch around the step, the fault ends trade() *)
CheckTradeFault_Abort ==
  /\ pc = "trade"
  /\ queue # <<>>
  /\ queue' = <<>>
  /\ pc' = "idle"
  /\ cycle' = cycle + 1
  /\ last' = NoLast
  /\ start' = NoStart
  /\ calls' = <<>>
  /\ feed' = [c \in Coins |-> NoPrice]
  /\ UNCHANGED <<trades, storedConfig, config, canInvest, balance,
                 optimalInvestRatio, stats, isNode, sellFailed, sl>>

(* trade(), lines 106-112: the mutator of tradesDao.update throws, the      *)
(* record is not written and the catch logs the fault                       *)
CheckTradeFault ==
  /\ pc = "trade"
  /\ queue # <<>>
  /\ queue' = Tail(queue)
  /\ last' = [coin |-> Head(queue), ran |-> FALSE]
  /\ start' = [start EXCEPT !.faulted = @ \cup {Head(queue)}]
  /\ calls' = <<>>
  /\ UNCHANGED <<trades, storedConfig, config, canInvest, balance,
                 optimalInvestRatio, feed, pc, cycle, stats, isNode,
                 sellFailed, sl>>

(* WithdrawalsManager.addWithdrawal, called while trade() is running *)
AddWithdrawal ==
  /\ pc = "trade"
  /\ start.withdrawn = 0
  /\ \E amount \in Withdrawals, xb \in ExchangeBalances :
       LET cfg == ConfigDaoGet(storedConfig)
           latestConfig == ConfigDaoGet(storedConfig)
       IN  /\ ~(amount > cfg.StableBalance)
           /\ ~(amount > xb)
           /\ storedConfig' = ConfigDaoSet(
                 [latestConfig EXCEPT !.StableBalance = @ - amount])
           /\ start' = [start EXCEPT !.withdrawn = amount]
  /\ UNCHANGED <<trades, config, canInvest, balance, optimalInvestRatio,
                 feed, pc, queue, cycle, calls, stats, isNode, last,
                 sellFailed, sl>>

NextEnv ==
  \/ TradeStartUpTo(MaxRounds)
  \/ CheckTradeWith(PaidExcess)
  \/ CheckTradeFault
  \/ PersistBalance
  \/ AddWithdrawal

(* production: the order of the cycle's list is random *)
InitEnv == Init /\ ~isNode

SpecEnv == InitEnv /\ [][NextEnv]_vars


----------------------------------------------------------------------------
(* Claims about the TradeManager cycle (specification Spec) *)

BuyCalls == {i \in DOMAIN calls : calls[i].kind = "buy"}
SellCalls == {i \in DOMAIN calls : calls[i].kind = "sell"}

(* C1: in every reachable state of one TradeManager,                       *)
(* 0 <= canInvest <= optimalInvestRatio.                                   *)
C1_CanInvestWithinRatio ==
  0 <= canInvest /\ canInvest <= optimalInvestRatio

(* C2: whenever #checkTrade calls marketBuy for a BUY-requested record the *)
(* proposed spend is greater than 0 and not greater than the available     *)
(* balance at that moment.                                                 *)
C2_BuySpendWithinBalance ==
  \A i \in BuyCalls : calls[i].arg > 0 /\ calls[i].arg <= calls[i].balance

(* C2 witness: a step has called marketBuy and the gateway has executed it *)
C2_Witness ==
  \E i \in BuyCalls : calls[i].ok /\ calls[i].arg < calls[i].balance

(* C5: when the gateway reports a sell as unsuccessful the record ends     *)
(* with hodl = true, state BOUGHT, deleted = false and the quantity and    *)
(* paid cost it had; no profit is recorded and availableBalance and        *)
(* canInvest are unchanged.                                                *)
C5_FailedSellMarksHodl ==
  (last.ran /\ \E i \in SellCalls : ~calls[i].ok /\ i = Len(calls)) =>
    LET c == calls[Len(calls)] IN
    /\ last.after.hodl
    /\ last.after.state = "BOUGHT"
    /\ ~last.after.deleted
    /\ last.after.tradeResult.quantity = c.arg
    /\ last.after.tradeResult.paid = last.before.tradeResult.paid
    /\ stats.n = c.profits
    /\ balance = c.balance
    /\ canInvest = c.canInvest

(* C6: after a sell attempt has failed for a record the engine makes no    *)
(* further automatic sell attempt for it: a later step that finds the      *)
(* record in state BOUGHT (no sell signal) never calls marketSell for it.  *)
C6_NoAutomaticSellAfterFailure ==
  [][ (pc = "trade" /\ queue # <<>> /\ Head(queue) \in sellFailed
       /\ Head(queue) \in DOMAIN trades
       /\ trades[Head(queue)].state = "BOUGHT")
      => \A i \in DOMAIN calls' : calls'[i].kind # "sell" ]_vars

(* C10, as stated: from an empty ledger with one candidate buy signal the  *)
(* buy is executed only if floor(balance / 2) >= MinBuyFloor.              *)
OneCandidateFromEmpty ==
  /\ pc = "trade"
  /\ start.empty
  /\ start.candidates = 1
  /\ Cardinality(DOMAIN trades) = 1

C10_BuyOnlyIfHalfBalanceAboveFloor ==
  (OneCandidateFromEmpty /\ \E i \in BuyCalls : calls[i].ok)
    => start.balance \div 2 >= MIN_BUSD_BUY

(* C10, amended: the cycle sets optimalInvestRatio = 2 and canInvest = 2,  *)
(* the proposed spend is max(MinBuyFloor, floor(balance / 2)) and the buy  *)
(* is executed only if that spend is within the balance, that is only if   *)
(* balance >= MinBuyFloor.                                                 *)
C10_BuyOnlyIfBalanceAboveFloor ==
  OneCandidateFromEmpty =>
    /\ optimalInvestRatio = 2
    /\ (\A i \in BuyCalls : ~calls[i].ok) => canInvest = 2
    /\ \A i \in BuyCalls :
         /\ calls[i].canInvest = 2
         /\ calls[i].arg = Max(MIN_BUSD_BUY, start.balance \div 2)
         /\ start.balance >= MIN_BUSD_BUY
    /\ start.balance < MIN_BUSD_BUY => BuyCalls = {}

(* C10 witness: the buy has been executed with floor(balance / 2) below    *)
(* MinBuyFloor                                                             *)
C10_Witness ==
  /\ OneCandidateFromEmpty
  /\ \E i \in BuyCalls : calls[i].ok
  /\ start.balance \div 2 < MIN_BUSD_BUY

(* C11: the state of a ledger record changes only along IDLE -> BUY,        *)
(* BUY -> BOUGHT, BUY -> IDLE, BOUGHT -> SELL, SELL -> SOLD, SELL -> BOUGHT *)
(* and SOLD -> BUY; in particular a record in state BOUGHT that holds a     *)
(* quantity is never moved to BUY or IDLE.                                  *)
StateEdges ==
  { <<"IDLE", "BUY">>, <<"BUY", "BOUGHT">>, <<"BUY", "IDLE">>,
    <<"BOUGHT", "SELL">>, <<"SELL", "SOLD">>, <<"SELL", "BOUGHT">>,
    <<"SOLD", "BUY">> }

C11_StateChangesAlongEdges ==
  [][ \A c \in DOMAIN trades \cap DOMAIN trades' :
        \/ trades'[c].state = trades[c].state
        \/ <<trades[c].state, trades'[c].state>> \in StateEdges ]_vars

(* C24: at the start of every cycle optimalInvestRatio =                   *)
(* max(2, min(4, number of candidates)), so it is always in [2, 4]; if the *)
(* ledger holds no open positions at that point canInvest is set to        *)
(* optimalInvestRatio, and if it holds open positions canInvest keeps its  *)
(* previous value.                                                         *)
C24_InvestRatioAtCycleStart ==
  (pc = "trade" /\ last = NoLast) =>
    /\ optimalInvestRatio = Max(2, Min(4, start.candidates))
    /\ optimalInvestRatio \in 2..4
    /\ IF start.held
       THEN canInvest = start.previous
       ELSE canInvest = optimalInvestRatio

(* C24 witness: a cycle has started on a ledger with an open position and  *)
(* has kept the invest credit the cycle before left, below the ratio       *)
C24_Witness ==
  /\ pc = "trade"
  /\ cycle = 1
  /\ last = NoLast
  /\ \E c \in DOMAIN trades : trades[c].tradeResult.quantity > 0
  /\ canInvest > 0
  /\ canInvest < optimalInvestRatio

(* C15: when no price is available in a cycle for a record that holds      *)
(* quantity > 0 the record's processing is aborted: its state, ttl,        *)
(* stopLimitPrice and quantity are the same after the step as before, and  *)
(* no buy or sell is executed for it.                                      *)
C15_NoPriceLeavesHeldRecordAlone ==
  (/\ pc = "trade"
   /\ last.ran
   /\ feed[last.coin] = NoPrice
   /\ last.before.tradeResult.quantity > 0)
    => /\ last.after.state = last.before.state
       /\ last.after.ttl = last.before.ttl
       /\ last.after.stopLimitPrice = last.before.stopLimitPrice
       /\ last.after.tradeResult.quantity = last.before.tradeResult.quantity
       /\ calls = <<>>

----------------------------------------------------------------------------
(* Claims about the cycle in its environment (specification SpecEnv) *)

(* sum gained by the sells minus sum paid by the buys of a step's calls *)
RECURSIVE CallsDelta(_)
CallsDelta(cs) ==
  IF cs = <<>> THEN 0
  ELSE cs[1].gained - cs[1].paid + CallsDelta(Tail(cs))

(* C12: if availableBalance is >= 0 before a buy it is >= 0 after the buy   *)
(* has been accounted for, for every result the gateway may return, so     *)
(* availableBalance >= 0 holds after any sequence of cycles that starts    *)
(* with a non-negative balance.                                            *)
C12_BalanceNeverNegative ==
  (\A i \in BuyCalls : calls[i].balance >= 0) => balance >= 0

(* C13: within one cycle a fault raised while processing one record does   *)
(* not prevent any other record of the cycle from being processed: every   *)
(* record of the cycle's list has its step invoked exactly once, and the   *)
(* end-of-cycle balance reconciliation still runs (after the last record   *)
(* the reconciliation is enabled and is the only step that ends the        *)
(* cycle).                                                                 *)
QueueItems == {queue[i] : i \in DOMAIN queue}

Reconciled ==
  /\ pc' = "idle"
  /\ cycle' = cycle + 1
  /\ storedConfig'.StableBalance = balance - start.withdrawn
  /\ UNCHANGED trades

C13_FaultDoesNotStopTheCycle ==
  /\ [](pc = "trade" =>
          /\ Cardinality(QueueItems) = Len(queue)
          /\ QueueItems \subseteq DOMAIN trades)
  /\ [][ /\ (pc = "idle" /\ pc' = "trade") => QueueItems' = DOMAIN trades'
         /\ (pc = "trade" /\ queue # <<>> /\ last' # last) =>
              /\ pc' = "trade"
              /\ queue' = Tail(queue)
              /\ last'.coin = Head(queue)
              /\ last'.ran <=> start'.faulted = start.faulted
         /\ (pc = "trade" /\ queue # <<>>) => queue' \in {queue, Tail(queue)}
         /\ (pc = "trade" /\ queue = <<>> /\ pc' # pc) => Reconciled ]_vars
  /\ []((pc = "trade" /\ queue = <<>>) => ENABLED PersistBalance)

(* C13 witness: a record's step has run after the step of another record   *)
(* of the same cycle raised a fault                                        *)
C13_Witness ==
  /\ pc = "trade"
  /\ last.ran
  /\ start.faulted # {}
  /\ last.coin \notin start.faulted
  /\ queue = <<>>

(* C14: in one cycle every record is processed exactly once, and every     *)
(* record that is not BUY-requested is processed before every              *)
(* BUY-requested record, so that the balance and the canInvest credit      *)
(* freed by a sell of the cycle are counted when the spend of a            *)
(* BUY-requested record is computed.                                       *)
C14_BuyRequestedLast ==
  pc = "trade" =>
    /\ \A i, j \in DOMAIN queue :
         (i < j /\ trades[queue[i]].state = "BUY")
           => trades[queue[j]].state = "BUY"
    /\ \A i, j \in DOMAIN queue : i # j => queue[i] # queue[j]
    /\ (last.coin # "" => last.coin \notin QueueItems)
    /\ (last.ran /\ last.before.state = "BUY") =>
         \A c \in QueueItems : trades[c].state = "BUY"
    /\ \A i \in BuyCalls :
         /\ \A c \in QueueItems : trades[c].state = "BUY"
         /\ calls[i].arg =
              Max(MIN_BUSD_BUY, calls[i].balance \div calls[i].canInvest)

(* C14 witness: a buy spends more than the balance the cycle started with, *)
(* out of what a sell of the same cycle has gained                         *)
C14_Witness ==
  /\ pc = "trade"
  /\ \E i \in BuyCalls : calls[i].ok /\ calls[i].arg > start.balance
                                    /\ calls[i].canInvest > start.canInvest

(* C16: the balance delta of a cycle (sum gained by sells minus sum paid by *)
(* buys) is written to the persisted configuration at most once per cycle, *)
(* at cycle end, by adding it to a freshly read StableBalance: with no     *)
(* other writer the persisted StableBalance after the cycle is the balance *)
(* at cycle start plus the delta (also when StableBalance was the sentinel *)
(* -1 and the balance came from the exchange), and a withdrawal committed  *)
(* during the cycle before the reconciliation is preserved in the result.  *)
C16_DeltaAddedToFreshBalance ==
  [][ /\ (pc = "trade" /\ queue # <<>> /\ last' # last) =>
           balance' = balance + CallsDelta(calls')
      /\ (pc = "trade" /\ pc' = "trade") =>
           storedConfig'.StableBalance
             = start.stored - start'.withdrawn
      /\ (pc = "trade" /\ pc' = "idle") =>
           LET delta == balance - start.balance
           IN  /\ start.withdrawn = 0 =>
                    storedConfig'.StableBalance = start.balance + delta
               /\ start.withdrawn # 0 =>
                    /\ start.stored # 0 - 1
                    /\ storedConfig.StableBalance
                         = start.stored - start.withdrawn
                    /\ storedConfig'.StableBalance
                         = storedConfig.StableBalance + delta ]_vars

(* C16 witness: a cycle with a buy or a sell has been reconciled after a   *)
(* withdrawal was committed while it was running                           *)
C16_Witness ==
  /\ pc = "idle"
  /\ cycle > 0
  /\ last.withdrawn > 0
  /\ balance = storedConfig.StableBalance

(* C18: when the gateway reports a sell as successful, after the sell the   *)
(* record has state SOLD, ttl 0 and deleted = true,                        *)
(* canInvest = min(optimalInvestRatio, old canInvest + 1) and              *)
(* availableBalance = old availableBalance + gained.                       *)
C18_SuccessfulSell ==
  (pc = "trade" /\ last.ran) =>
    \A i \in SellCalls :
      (calls[i].ok /\ i = Len(calls)) =>
        /\ last.after.state = "SOLD"
        /\ last.after.ttl = 0
        /\ last.after.deleted
        /\ last.coin \notin DOMAIN trades
        /\ canInvest = Min(optimalInvestRatio, calls[i].canInvest + 1)
        /\ balance = calls[i].balance + calls[i].gained
        /\ calls[i].gained = last.after.tradeResult.gained

(* C18 witness: a held record has been sold and the sale has gained money  *)
C18_Witness ==
  /\ pc = "trade"
  /\ last.ran
  /\ \E i \in SellCalls : calls[i].ok /\ i = Len(calls) /\ calls[i].gained > 0
                            /\ calls[i].canInvest < optimalInvestRatio

(* C19: when the gateway reports a buy as successful, after the buy the    *)
(* record has state BOUGHT and ttl 0, its stopLimitPrice has been reseeded *)
(* from the channel-low seed, canInvest = max(0, old canInvest - 1) and    *)
(* availableBalance = old availableBalance - cost.                         *)
C19_SuccessfulBuy ==
  (pc = "trade" /\ last.ran) =>
    \A i \in BuyCalls :
      calls[i].ok =>
        /\ last.after.state = "BOUGHT"
        /\ last.after.ttl = 0
        /\ last.after.stopLimitPrice \in ChannelMins
        /\ canInvest = Max(0, calls[i].canInvest - 1)
        /\ balance = calls[i].balance - calls[i].arg

(* C20: when a requested buy is not executed, because the proposed spend   *)
(* is 0 or exceeds availableBalance (the gateway is then not called) or    *)
(* because the gateway reports failure, the record is reset to IDLE and    *)
(* availableBalance, canInvest and the record's quantity and paidCost are  *)
(* unchanged; the buy is attempted again only if a buy signal arrives in a *)
(* later cycle (only a cycle's signals move a record to BUY, and only a    *)
(* record in state BUY is bought).                                         *)

(* the record of the next step after the new price and processBoughtState  *)
Processed(tm, price) ==
  LET t1 == IF price # NoPrice THEN pushPrice(tm, price) ELSE tm
  IN  IF t1.tradeResult.quantity > 0
      THEN processBoughtState(t1, config, CHOOSE m \in ChannelMins : TRUE)
      ELSE t1

(* the next step reaches the buy of a requested record *)
BuyReached ==
  /\ pc = "trade"
  /\ queue # <<>>
  /\ ~isNode
  /\ LET tm == Processed(trades[Head(queue)], feed[Head(queue)])
     IN  stateIs(tm, "BUY") /\ getPriceMove(tm) > DOWN

(* the allocator denies the buy the next step reaches *)
BuyDenied ==
  LET tm == trades[Head(queue)]
      howMuch == calculateQuantity([tm |-> tm, canInvest |-> canInvest,
                                    balance |-> balance])
  IN  ~(howMuch > 0 /\ howMuch <= balance)

C20_BuyNotExecuted ==
  /\ [][ (BuyReached /\ last'.ran /\ last'.coin = Head(queue)
          /\ \A i \in DOMAIN calls' : ~calls'[i].ok) =>
           LET c == Head(queue)
           IN  /\ c \in DOMAIN trades'
               /\ trades'[c].state = "IDLE"
               /\ balance' = balance
               /\ canInvest' = canInvest
               /\ trades'[c].tradeResult.quantity = trades[c].tradeResult.quantity
               /\ trades'[c].tradeResult.paid = trades[c].tradeResult.paid
               /\ BuyDenied <=> calls' = <<>>
               /\ ~BuyDenied => Len(calls') = 1 /\ calls'[1].kind = "buy" ]_vars
  /\ [][ \A c \in DOMAIN trades' :
           (trades'[c].state = "BUY"
            /\ (c \notin DOMAIN trades \/ trades[c].state # "BUY"))
             => (pc = "idle" /\ pc' = "trade") ]_vars
  /\ []((pc = "trade" /\ last.ran /\ BuyCalls # {})
          => last.before.state = "BUY")

(* C20 witness: a record requested to buy has been reset to IDLE without a *)
(* gateway call, the proposed spend being above the balance                *)
C20_Witness ==
  /\ pc = "trade"
  /\ last.ran
  /\ last.before.state = "BUY"
  /\ last.before.tradeResult.quantity = 0
  /\ last.after.state = "IDLE"
  /\ calls = <<>>
  /\ canInvest > 0
  /\ balance > 0

----------------------------------------------------------------------------
(* TradeManager.#checkTrade on one record (specification SpecStep): the    *)
(* last record of a cycle's list, with the price memo, the state, the      *)
(* balance and the invest credit it may have by then, then the step and    *)
(* the end of the cycle.                                                   *)

StepCoin == CoinOrder[1]

(* ChannelWindowMins / FearGreedIndex is 2250 cycles *)
StepTTLs == {0, 2249}

StepHistories == {<<>>, <<10>>, <<8, 10>>, <<12, 10>>, <<10, 10>>}

(* a record without quantity, as #setBuyState or a denied buy leaves it,   *)
(* and a record bought for MIN_BUSD_BUY at 12                              *)
StepRecords ==
  {[NewTradeMemo(NewTradeResult) EXCEPT !.prices = h, !.state = s] :
     h \in StepHistories, s \in {"IDLE", "BUY"}}
  \cup
  {[HeldLedger[StepCoin] EXCEPT !.prices = h, !.state = s, !.ttl = t] :
     h \in StepHistories \ {<<>>}, s \in {"BOUGHT", "BUY", "SELL"},
     t \in StepTTLs}

StepBalances == {10, 20, 40}

InitStep ==
  /\ \E tm \in StepRecords : trades = Put(NoTrades, StepCoin, tm)
  /\ \E b \in StepBalances :
       /\ storedConfig = [DefaultConfig EXCEPT !.StableBalance = b]
       /\ balance = b
       /\ start = [NoStart EXCEPT !.balance = b, !.stored = b]
  /\ config = storedConfig
  /\ optimalInvestRatio = 2
  /\ canInvest \in 0..2
  /\ \E p \in Prices \cup {NoPrice} :
       feed = [c \in Coins |-> IF c = StepCoin THEN p ELSE NoPrice]
  /\ pc = "trade"
  /\ queue = <<StepCoin>>
  /\ cycle = 0
  /\ calls = <<>>
  /\ stats = [n |-> 0, total |-> 0]
  /\ isNode = FALSE
  /\ last = NoLast
  /\ sellFailed = {}
  /\ sl = NoRecord

NextStep == CheckTradeStep \/ PersistBalance

SpecStep == InitStep /\ [][NextStep]_vars

(* the record a step has looked at: the step's record after the new price  *)
(* and processBoughtState, and the step's coin                             *)
StepOf(c) == Processed(trades[c], feed[c])

C23_AllocatorSpend ==
  [][ (pc = "trade" /\ queue # <<>> /\ last'.ran /\ last'.coin = Head(queue)) =>
        LET c == Head(queue)
            tm == StepOf(c)
            buys == {i \in DOMAIN calls' : calls'[i].kind = "buy"}
            spend == Max(MIN_BUSD_BUY, balance \div canInvest)
        IN  /\ (canInvest <= 0 \/ trades[c].tradeResult.quantity > 0) =>
                  buys = {}
            /\ (stateIs(tm, "BUY") /\ getPriceMove(tm) > DOWN) =>
                  IF canInvest <= 0 \/ tm.tradeResult.quantity > 0
                     \/ spend > balance
                  THEN calls' = <<>> /\ trades'[c] = resetState(tm)
                  ELSE /\ Len(calls') = 1
                       /\ buys = {1}
                       /\ calls'[1].arg = spend ]_vars

(* C23 witness: a held record requested to buy has been reset without a    *)
(* gateway call although the balance and the invest credit allow a buy     *)
C23_Witness ==
  /\ pc = "trade"
  /\ last.ran
  /\ last.before.state = "BUY"
  /\ last.before.tradeResult.quantity > 0
  /\ last.after.state = "IDLE"
  /\ calls = <<>>
  /\ canInvest > 0
  /\ balance >= MIN_BUSD_BUY

(* min(0.99 * average of the last 3 prices, currentPrice) *)
DecayedStopLimit(tm) == Min((99 * avePriceSum(tm)) \div 300, currentPrice(tm))

(* C30: once a held record's ttl has reached ChannelWindowMinutes / FGI    *)
(* cycles since its last buy (which seeded its stop limit), every          *)
(* stop-limit computation leaves                                           *)
(* stopLimitPrice >= min(0.99 * average of the last 3 prices,              *)
(* currentPrice), whatever the record's profit; and ttl increases by       *)
(* exactly 1 in each cycle in which the record is held and is 0 right      *)
(* after a buy and right after a sell.                                     *)
C30_TimeDecayAndTTL ==
  [][ (pc = "trade" /\ queue # <<>> /\ last'.ran /\ last'.coin = Head(queue)) =>
        LET old == trades[Head(queue)]
            new == last'.after
            done(kind) == \E i \in DOMAIN calls' :
                            calls'[i].kind = kind /\ calls'[i].ok
        IN  /\ (old.tradeResult.quantity > 0 /\ ~done("sell")) =>
                  /\ new.ttl = old.ttl + 1
                  /\ (old.stopLimitPrice # 0
                      /\ new.ttl * config.FearGreedIndex
                           >= config.ChannelWindowMins) =>
                       new.stopLimitPrice >= DecayedStopLimit(new)
            /\ done("buy") => new.ttl = 0 /\ new.state = "BOUGHT"
            /\ done("sell") => new.ttl = 0 /\ new.state = "SOLD" ]_vars

(* C30 witness: a record held at a loss for ChannelWindowMinutes / FGI     *)
(* cycles, its stop limit raised from the seed to                          *)
(* 0.99 * the average of its last 3 prices                                 *)
C30_Witness ==
  /\ pc = "trade"
  /\ last.ran
  /\ last.after.state = "BOUGHT"
  /\ last.after.ttl * config.FearGreedIndex = config.ChannelWindowMins
  /\ profit(last.after) < 0
  /\ last.after.stopLimitPrice = (99 * avePriceSum(last.after)) \div 300
  /\ last.after.stopLimitPrice > last.before.stopLimitPrice
  /\ last.before.stopLimitPrice > 0

----------------------------------------------------------------------------
(* V2Trader (src/apps-script/Trader.ts, and the later copy kept in         *)
(* src/src/gas/dao/Config.ts): the stop limit of a BOUGHT record           *)

priceGoesUp(tm) ==
  LET n == Len(tm.prices)
  IN  n >= 3 /\ tm.prices[n - 2] < tm.prices[n - 1] /\ tm.prices[n - 1] < tm.prices[n]

(* tm.prices[tm.prices.length - 3] * (1 - StopLimit) *)
StopLimitBehindPrice(tm, cfg) ==
  (tm.prices[Len(tm.prices) - 2] * (RatioScale - cfg.StopLimit)) \div RatioScale

(* tradeResult.price * (1 + ProfitLimit) < currentPrice *)
AboveProfitLimit(tm, cfg, price) ==
  price * RatioScale > tm.tradeResult.price * (RatioScale + cfg.ProfitLimit)

(* the two sell triggers of V2Trader.processBoughtState *)
SellTriggers(tm, cfg) ==
  LET byStop == currentPrice(tm) < tm.stopLimitPrice
                /\ ~tm.hodl /\ cfg.SellAtStopLimit
      byProfit == AboveProfitLimit(tm, cfg, currentPrice(tm))
                  /\ ~tm.hodl /\ cfg.SellAtProfitLimit
  IN  IF byStop \/ byProfit THEN setState(tm, "SELL") ELSE tm

(* apps-script/Trader.ts, V2Trader.processBoughtState *)
processBoughtStateV2A(tm, cfg) ==
  LET up == priceGoesUp(tm)
      t1 == SellTriggers(tm, cfg)
  IN  IF up
      THEN [t1 EXCEPT !.stopLimitPrice = Max(@, StopLimitBehindPrice(tm, cfg))]
      ELSE t1

(* (tradeResult.cost - totalProfit / numberOfBoughtAssets) / quantity *)
ProfitBasedStopLimit(tm, totalProfit, numberOfBoughtAssets) ==
  ((tm.tradeResult.paid * numberOfBoughtAssets - totalProfit) * QtyScale)
    \div (numberOfBoughtAssets * tm.tradeResult.quantity)

(* gas/dao/Config.ts, V2Trader.processBoughtState *)
processBoughtStateV2C(tm, cfg, totalProfit, numberOfBoughtAssets) ==
  LET t1 == SellTriggers(tm, cfg)
  IN  IF cfg.ProfitBasedStopLimit
      THEN [t1 EXCEPT !.stopLimitPrice =
              ProfitBasedStopLimit(tm, totalProfit, numberOfBoughtAssets)]
      ELSE IF tm.stopLimitPrice = 0 \/ priceGoesUp(tm)
           THEN [t1 EXCEPT !.stopLimitPrice =
                   Max(@, StopLimitBehindPrice(tm, cfg))]
           ELSE t1

----------------------------------------------------------------------------
(* One position record driven tick by tick through the stop-limit          *)
(* calculator of each engine (specification SpecStop).  Prices and money   *)
(* are in thousandths here.                                                *)

MaxTicks == 3

Engines == {"TradeManager", "V2A", "V2C"}
TickPrices == {8000, 9500, 10000, 10600, 12000}
TickChannelMins == {7000, 11000}
TickCost == 100 * 1000
TotalProfits == {0, 20 * 1000}
BoughtAssets == {1, 2}

StopConfigs ==
  { [ engine |-> e, ChannelSize |-> 2500, FearGreedIndex |-> fgi,
      ChannelWindowMins |-> cwm, SellAtStopLimit |-> sell,
      SellAtProfitLimit |-> sell, StopLimit |-> 500, ProfitLimit |-> 500,
      ProfitBasedStopLimit |-> pb ] :
      e \in Engines, fgi \in {2}, cwm \in {4500, 6}, sell \in BOOLEAN,
      pb \in BOOLEAN }

(* a record just requested to buy, and a record held for four cycles *)
(* V2Trader reads tm.prices[length - 3]: its records hold three samples *)
RequestedRecord(engine) ==
  setState([NewTradeMemo(NewTradeResult) EXCEPT
              !.prices = IF engine = "TradeManager" THEN <<10000>>
                         ELSE <<10000, 10000, 10000>>],
           "BUY")

HeldRecord(stop) ==
  [ setState(
      joinWithNewTrade(NewTradeMemo(NewTradeResult),
                       marketBuy(TickCost, 10000, TRUE)),
      "BOUGHT")
    EXCEPT !.prices = <<9000, 9000, 9500>>, !.ttl = 4,
           !.stopLimitPrice = stop, !.maxObservedPrice = 10000 ]

InitStop ==
  /\ trades = NoTrades
  /\ storedConfig = DefaultConfig
  /\ config = DefaultConfig
  /\ canInvest = 0
  /\ balance = 0
  /\ optimalInvestRatio = 0
  /\ feed = [c \in Coins |-> NoPrice]
  /\ pc = "stop"
  /\ queue = <<>>
  /\ cycle = 0
  /\ calls = <<>>
  /\ stats = [n |-> 0, total |-> 0]
  /\ isNode = FALSE
  /\ last = NoLast
  /\ start = NoStart
  /\ sellFailed = {}
  /\ \E cfg \in StopConfigs,
        tm \in {RequestedRecord(e) : e \in Engines}
                 \cup {HeldRecord(st) : st \in {0, 5000, 7125}} :
       /\ tm.state = "BUY" => tm = RequestedRecord(cfg.engine)
       /\ (cfg.engine = "TradeManager") => ~cfg.ProfitBasedStopLimit
       /\ (cfg.engine = "V2A") => ~cfg.ProfitBasedStopLimit
       /\ (cfg.engine # "TradeManager") => cfg.ChannelWindowMins = 4500
       /\ sl = [ engine |-> cfg.engine, cfg |-> cfg, tm |-> tm, op |-> "init",
                 prevStop |-> 0, seed |-> 0, ticks |-> 0, bought |-> FALSE,
                 log |-> <<>> ]

(* the buy of the requested record: #buy's bookkeeping on the record *)
BuyRecord(engine, tm, cfg, price, chMin) ==
  LET res == marketBuy(TickCost, price, TRUE)
      joined == joinWithNewTrade(tm, res)
  IN  IF engine = "TradeManager"
      THEN setState(forceUpdateStopLimit(
                      joinWithNewTrade([tm EXCEPT !.prices = <<res.price>>], res),
                      cfg, chMin), "BOUGHT")
      ELSE IF engine = "V2A"
      THEN setState([joined EXCEPT !.stopLimitPrice =
                       (res.price * (RatioScale - cfg.StopLimit)) \div RatioScale],
                    "BOUGHT")
      ELSE setState(joined, "BOUGHT")

(* one cycle of a held record: the new price, then processBoughtState *)
TickRecord(engine, tm, cfg, price, chMin, totalProfit, n) ==
  IF engine = "TradeManager"
  THEN processBoughtState(pushPrice(tm, price), cfg, chMin)
  ELSE IF engine = "V2A"
  THEN processBoughtStateV2A(pushPrice(tm, price), cfg)
  ELSE processBoughtStateV2C(pushPrice(tm, price), cfg, totalProfit, n)

(* what the crossing detectors answer in one cycle: on the record as the  *)
(* engine evaluates them, before the stop-limit update in V2Trader and     *)
(* after it in TradeManager                                                *)
Crossings(engine, before, after, cfg, price) ==
  LET at == IF engine = "TradeManager" THEN after
            ELSE pushPrice(before, price)
  IN  [ from |-> currentPrice(before), price |-> price,
        stop |-> at.stopLimitPrice,
        profitUp |-> profitLimitCrossedUp(at, cfg.ProfitLimit),
        lossDown |-> IF engine = "TradeManager" THEN stopLimitCrossedDown(at)
                     ELSE lossLimitCrossedDown(at),
        entryUp |-> entryPriceCrossedUp(at) ]

StopBuy ==
  /\ pc = "stop"
  /\ sl.tm.state = "BUY"
  /\ \E price \in TickPrices, chMin \in TickChannelMins :
       sl' = [sl EXCEPT !.tm = BuyRecord(sl.engine, sl.tm, sl.cfg, price, chMin),
                        !.op = "buy",
                        !.bought = TRUE,
                        !.prevStop = sl.tm.stopLimitPrice,
                        !.seed = chMin]
  /\ UNCHANGED <<trades, storedConfig, config, canInvest, balance,
                 optimalInvestRatio, feed, pc, queue, cycle, calls, stats,
                 isNode, last, start, sellFailed>>

StopTick ==
  /\ pc = "stop"
  /\ sl.tm.state = "BOUGHT"
  /\ sl.ticks < MaxTicks
  /\ \E price \in TickPrices, chMin \in TickChannelMins,
        tp \in TotalProfits, n \in BoughtAssets :
       /\ sl.engine # "TradeManager" => chMin = 7000
       /\ (sl.engine # "V2C" \/ ~sl.cfg.ProfitBasedStopLimit)
            => (tp = 0 /\ n = 1)
       /\ sl' = [sl EXCEPT
                   !.tm = TickRecord(sl.engine, sl.tm, sl.cfg, price, chMin, tp, n),
                   !.log = Append(@, Crossings(sl.engine, sl.tm,
                              TickRecord(sl.engine, sl.tm, sl.cfg, price, chMin, tp, n),
                              sl.cfg, price)),
                   !.op = "tick",
                   !.prevStop = sl.tm.stopLimitPrice,
                   !.seed = chMin,
                   !.ticks = @ + 1]
  /\ UNCHANGED <<trades, storedConfig, config, canInvest, balance,
                 optimalInvestRatio, feed, pc, queue, cycle, calls, stats,
                 isNode, last, start, sellFailed>>

NextStop == StopBuy \/ StopTick

SpecStop == InitStop /\ [][NextStop]_vars

----------------------------------------------------------------------------
(* Claims about the stop limit (specification SpecStop) *)

(* the record has been through a cycle as a held record and is still BOUGHT *)
StayedBought == sl.op = "tick" /\ sl.tm.state = "BOUGHT"

ProfitBased == sl.engine = "V2C" /\ sl.cfg.ProfitBasedStopLimit

AfterResetAndOneCompute ==
  sl.engine = "TradeManager" /\ sl.bought /\ sl.op = "tick" /\ sl.ticks = 1

C4_StopLimitNotAbovePrice ==
  (sl.engine = "TradeManager" /\ sl.op = "tick") =>
     sl.tm.stopLimitPrice <= currentPrice(sl.tm)

(* C4, amended: forceReset leaves ttl = 0 and the stop limit at the        *)
(* channel-low seed; every further compute leaves the stop limit at most   *)
(* max(currentPrice, the stop limit before it), or the seed when the stop  *)
(* limit before it was 0: the two candidates never exceed currentPrice.    *)
C4_CandidatesCappedByPrice ==
  sl.engine = "TradeManager" =>
    /\ sl.op = "buy" => (sl.tm.stopLimitPrice = sl.seed /\ sl.tm.ttl = 0)
    /\ sl.op = "tick" =>
         sl.tm.stopLimitPrice <=
           IF sl.prevStop = 0 THEN sl.seed
           ELSE Max(currentPrice(sl.tm), sl.prevStop)

(* C4 witness: forceReset and one compute have left the stop limit above   *)
(* the current price                                                       *)
C4_Witness ==
  AfterResetAndOneCompute /\ sl.tm.stopLimitPrice > currentPrice(sl.tm)

(* C9: the scenario record (paid 100, quantity 10, history 9, 9.5, 10,     *)
(* ttl 5; ChannelSize 0.25, FGI 2, ChannelWindowMins 4500) after one       *)
(* stop-limit computation                                                  *)
C9_Scenario ==
  /\ sl.engine = "TradeManager"
  /\ sl.op = "tick"
  /\ sl.tm.prices = <<9000, 9500, 10000>>
  /\ sl.tm.ttl = 5
  /\ sl.tm.tradeResult.paid = 100000
  /\ sl.tm.tradeResult.quantity = 10 * QtyScale
  /\ sl.cfg.ChannelSize = 2500
  /\ sl.cfg.FearGreedIndex = 2
  /\ sl.cfg.ChannelWindowMins = 4500

(* C9, as stated: with previous stopLimitPrice = 0 the computation yields  *)
(* stopLimitPrice = 7.125.                                                 *)
C9_FromZeroYields7125 ==
  (C9_Scenario /\ sl.prevStop = 0) => sl.tm.stopLimitPrice = 7125

(* C9, amended: candidateA = 7.125 and candidateB is about 0.0211; with a  *)
(* previous stopLimitPrice s, 0 < s <= 7.125, the computation yields       *)
(* 7.125; with previous stopLimitPrice = 0 it yields the channel-low seed. *)
C9_ScenarioStopLimit ==
  C9_Scenario =>
    /\ StopLimitByProfit(sl.tm, sl.cfg) = 7125
    /\ StopLimitByTTL(sl.tm, sl.cfg) = 21
    /\ (0 < sl.prevStop /\ sl.prevStop <= 7125) => sl.tm.stopLimitPrice = 7125
    /\ sl.prevStop = 0 => sl.tm.stopLimitPrice = sl.seed

(* C9 witness: the scenario computed from a previous stop limit of 5 *)
C9_Witness ==
  C9_Scenario /\ sl.prevStop = 5000 /\ sl.tm.stopLimitPrice = 7125

(* Claims about the crossing detectors (specification SpecStop) *)

ProfitLimitPriceOver(price) ==
  price * RatioScale > sl.tm.tradeResult.price * (RatioScale + sl.cfg.ProfitLimit)

(* the ticks on which profitLimitCrossedUp answered true *)
ProfitUpTicks == {i \in DOMAIN sl.log : sl.log[i].profitUp}

(* C8 scenario: paidCost 100, quantity 10, ProfitLimit 0.05, and a price   *)
(* that rises tick by tick from 10 to 10.6                                 *)
C8_Scenario ==
  /\ sl.tm.tradeResult.paid = 100000
  /\ sl.tm.tradeResult.quantity = 10 * QtyScale
  /\ sl.cfg.ProfitLimit = 500
  /\ Len(sl.log) >= 2
  /\ sl.log[1].price = 10000
  /\ sl.log[Len(sl.log)].price = 10600
  /\ \A i \in DOMAIN sl.log : sl.log[i].from <= sl.log[i].price

(* C8: each crossing detector answers true on exactly the ticks where the  *)
(* previous sample was on one side of its threshold and the current sample *)
(* is on the other, the previous sample being the price of the tick        *)
(* before, hence false on every later tick while the price stays on the    *)
(* same side; in the scenario profitLimitCrossedUp is true on exactly one  *)
(* tick, the first whose price exceeds 10.5.                               *)
C8_CrossingDetectorsFireOnce ==
  /\ \A i \in DOMAIN sl.log :
       LET e == sl.log[i]
       IN  /\ i > 1 => e.from = sl.log[i - 1].price
           /\ e.profitUp <=>
                (ProfitLimitPriceOver(e.price) /\ ~ProfitLimitPriceOver(e.from))
           /\ e.lossDown <=> (e.price < e.stop /\ e.from >= e.stop)
           /\ e.entryUp <=>
                (e.price > sl.tm.tradeResult.price
                  /\ e.from <= sl.tm.tradeResult.price)
  /\ \A i \in DOMAIN sl.log : \A j \in DOMAIN sl.log :
       (i < j /\ sl.log[i].profitUp
         /\ \A k \in i..j : ProfitLimitPriceOver(sl.log[k].price))
       => ~sl.log[j].profitUp
  /\ C8_Scenario =>
       /\ Cardinality(ProfitUpTicks) = 1
       /\ \A i \in ProfitUpTicks :
            /\ sl.log[i].price > 10500
            /\ \A k \in 1..(i - 1) : sl.log[k].price <= 10500

(* C8 witness: the scenario, with one more tick above the profit limit     *)
(* after the crossing                                                      *)
C8_Witness ==
  /\ C8_Scenario
  /\ Len(sl.log) = 3
  /\ sl.log[2].price = 10600
  /\ ProfitUpTicks = {2}

TickEntry == sl.log[Len(sl.log)]

BelowStopLimit == TickEntry.price < TickEntry.stop

OverProfitLimit == AboveProfitLimit(sl.tm, sl.cfg, TickEntry.price)

(* C21: in a cycle a record in state BOUGHT with hodl false is moved to    *)
(* SELL if and only if (currentPrice < stopLimitPrice and stop-sell is     *)
(* enabled) or (currentPrice > averagePrice * (1 + ProfitLimit) and        *)
(* profit-sell is enabled), the stop limit being the one the engine        *)
(* compares the price with; with a toggle disabled its condition alone     *)
(* never sets SELL.                                                        *)
C21_SellIffBelowStopOrAboveProfit ==
  (sl.op = "tick" /\ ~sl.tm.hodl) =>
    (sl.tm.state = "SELL" <=>
       \/ BelowStopLimit /\ sl.cfg.SellAtStopLimit
       \/ OverProfitLimit /\ sl.cfg.SellAtProfitLimit)

----------------------------------------------------------------------------
(* V2Trader.tickerCheck on a ledger of three positions (specification      *)
(* SpecV2).  The store is the ledger collaborator: changeTrade reads the   *)
(* record, applies the mutator and writes the result back; a read of the   *)
(* list inside the mutator sees the records as last written.  The assets   *)
(* are not stable coins, no BNB record is held (fees are not netted),      *)
(* BuyDumps and the price-anomaly check are off.                           *)

MaxV2Ticks == 2

NoCoin == ""
V2Engines == {"V2A", "V2C"}
V2Prices == {920, 950, 1100}
V2Cost == 100 * 100
BuyQuantity == 50 * 100

V2Configs ==
  { [ engine |-> e, AveragingDown |-> ad, SwingTradeEnabled |-> sw,
      SellAtStopLimit |-> TRUE, SellAtProfitLimit |-> TRUE,
      StopLimit |-> 500, ProfitLimit |-> 500,
      ProfitBasedStopLimit |-> FALSE ] :
      e \in V2Engines, ad \in BOOLEAN, sw \in BOOLEAN }

(* a position bought for 100 at price 10 with the given history and stop; *)
(* prices and money are in hundredths here                                *)
V2Held(prices, stop, state) ==
  [ setState(
      joinWithNewTrade(NewTradeMemo(NewTradeResult),
                       marketBuy(V2Cost, 1000, TRUE)),
      state)
    EXCEPT !.prices = prices, !.stopLimitPrice = stop,
           !.maxObservedPrice = 1100 ]

(* ETH at -6% with the stop limit just under the price, ADA at -5%,        *)
(* BTC at +10%                                                             *)
HeldETH(state) == V2Held(<<960, 950, 940>>, 930, state)
HeldADA == V2Held(<<950, 950, 950>>, 900, "BOUGHT")
HeldBTC == V2Held(<<1100, 1100, 1100>>, 1000, "BOUGHT")

V2Ledger(eth) == Put(Put(Put(NoTrades, "ETH", eth), "ADA", HeldADA), "BTC", HeldBTC)

(* ETH to be sold, ADA and BTC both at -5% *)
TiedLedger ==
  Put(Put(Put(NoTrades, "ETH", HeldETH("SELL")), "ADA", HeldADA), "BTC", HeldADA)

(* store.getTradesList(): the order in which the list holds the records *)
V2ListOrder == <<"ETH", "ADA", "BTC">>

V2Ledgers ==
  { V2Ledger(HeldETH("BOUGHT")),
    V2Ledger(HeldETH("SELL")),
    TiedLedger,
    Put(NoTrades, "ETH", HeldETH("SELL")),
    Put(NoTrades, "ETH", HeldETH("BOUGHT")) }

(* TradeMemo.profitPercent is profit / paid: t1's is below t2's *)
LowerProfitPercent(t1, t2) ==
  profit(t1) * t2.tradeResult.paid < profit(t2) * t1.tradeResult.paid

BoughtCoins(store) == {c \in DOMAIN store : store[c].state = "BOUGHT"}

(* getTradesList().filter(BOUGHT).sort(byProfitPercentDesc)[0]: a BOUGHT   *)
(* record that no other BOUGHT record is below; the comparator answers 1   *)
(* both ways for equal percentages, so any of the equal ones may be first  *)
lowestProfitTrades(store) ==
  {c \in BoughtCoins(store) :
     \A d \in BoughtCoins(store) : ~LowerProfitPercent(store[d], store[c])}

(* mutant: the swing re-entry whatever SwingTradeEnabled is *)
processSoldState_Always(tm, cfg) ==
  IF currentPrice(tm) * RatioScale
       < tm.maxObservedPrice * (RatioScale - cfg.ProfitLimit)
  THEN setState(tm, "BUY")
  ELSE tm

(* V2Trader.processSoldState *)
processSoldState(tm, cfg) ==
  IF cfg.SwingTradeEnabled
     /\ currentPrice(tm) * RatioScale
          < tm.maxObservedPrice * (RatioScale - cfg.ProfitLimit)
  THEN setState(tm, "BUY")
  ELSE tm

(* tickerCheck up to "take action after processing" *)
V2Processed(engine, tm, cfg, price, totalProfit, n) ==
  LET t1 == IF price = NoPrice THEN tm ELSE pushPrice(tm, price)
  IN  IF t1.state = "BOUGHT"
      THEN IF engine = "V2A" THEN processBoughtStateV2A(t1, cfg)
           ELSE processBoughtStateV2C(t1, cfg, totalProfit, n)
      ELSE IF t1.state = "SOLD" THEN processSoldState(t1, cfg)
      ELSE t1

(* sell: the record after the gateway's answer, prof the profit computed   *)
(* from it                                                                 *)
V2SoldWith(memo, res, prof) ==
  IF res.fromExchange
  THEN setState([memo EXCEPT !.tradeResult = [res EXCEPT !.profit = prof]],
                "SOLD")
  ELSE setState([memo EXCEPT !.hodl = TRUE], "BOUGHT")

(* sell, the gateway charging no commission: processSellFee returns 0 *)
V2Sold(memo, res) == V2SoldWith(memo, res, res.gained - memo.tradeResult.paid)

(* buy: the record after the gateway's answer *)
V2Bought(engine, memo, res, cfg) ==
  IF res.fromExchange
  THEN IF engine = "V2A"
       THEN setState([joinWithNewTrade(memo, res) EXCEPT !.stopLimitPrice =
                        (res.price * (RatioScale - cfg.StopLimit)) \div RatioScale],
                     "BOUGHT")
       ELSE setState(joinWithNewTrade(memo, res), "BOUGHT")
  ELSE IF engine = "V2A" THEN memo ELSE resetState(memo)

(* tickerCheck from store.setTrade to the gateway's answer to the market   *)
(* sell, tm being the record after the new price and the state processing  *)
V2SellStageOf(engine, store, coin, price, okSell, tm0, tm) ==
  LET throws == price = NoPrice /\ tm0.tradeResult.quantity > 0
      store1 == IF engine = "V2A" THEN Put(store, coin, tm) ELSE store
      sres == marketSell(tm.tradeResult.quantity, price, okSell)
      sold == V2Sold(tm, sres)
  IN  [ throws |-> throws, tm |-> tm, store1 |-> store1,
        selling |-> ~throws /\ tm.state = "SELL" /\ ~priceGoesUp(tm),
        sres |-> sres, sold |-> sold,
        store2 |-> IF engine = "V2A" THEN Put(store1, coin, sold) ELSE store1 ]

(* tickerCheck as far as the sell: the new price, the state processing,    *)
(* V2A's store.setTrade, and the sell                                      *)
V2SellStage(engine, cfg, store, st, coin, price, okSell) ==
  V2SellStageOf(engine, store, coin, price, okSell, store[coin],
    IF price = NoPrice /\ store[coin].tradeResult.quantity > 0
    THEN store[coin]
    ELSE V2Processed(engine, store[coin], cfg, price, st.total,
                     Cardinality(BoughtCoins(store))))

(* the records the averaging-down step of sell may pick: none unless the   *)
(* sale succeeded, AveragingDown is on and the list has a BOUGHT record    *)
AveragingTargetsOf(cfg, g) ==
  IF g.selling /\ g.sold.state = "SOLD" /\ cfg.AveragingDown
     /\ lowestProfitTrades(g.store2) # {}
  THEN lowestProfitTrades(g.store2)
  ELSE {NoCoin}

AveragingTargets(engine, cfg, store, st, coin, price, okSell) ==
  AveragingTargetsOf(cfg, V2SellStage(engine, cfg, store, st, coin, price, okSell))

(* the rest of tickerCheck: the averaging-down buy of sell, or the buy of  *)
(* a requested record, and the write-back of changeTrade                   *)
tickerCheckOf(engine, cfg, store, st, coin, price, okBuy, bprice, target, g) ==
  LET bres == marketBuy(g.sres.gained, bprice, okBuy)
      store3 ==
        IF target = NoCoin THEN g.store2
        ELSE IF engine = "V2C" \/ bres.fromExchange
        THEN Put(g.store2, target, V2Bought(engine, g.store2[target], bres, cfg))
        ELSE g.store2
      ores == marketBuy(BuyQuantity, price, okBuy)
      idle(to) == [ store |-> to, stats |-> st, sold |-> FALSE,
                    target |-> NoCoin, view |-> store, reinvested |-> 0 ]
  IN  IF g.throws THEN idle(store)
      ELSE IF g.selling
      THEN [ store |-> IF engine = "V2A" THEN store3
                       ELSE Put(store3, coin, g.sold),
             stats |-> IF g.sres.fromExchange
                       THEN addProfit(st, g.sold.tradeResult.profit) ELSE st,
             sold |-> g.sres.fromExchange,
             target |-> target,
             view |-> Put(g.store2, coin, g.sold),
             reinvested |-> IF target # NoCoin /\ bres.fromExchange
                            THEN bres.paid ELSE 0 ]
      ELSE IF g.tm.state = "BUY" /\ priceGoesUp(g.tm)
      THEN idle(IF engine = "V2C" \/ ores.fromExchange
                THEN Put(g.store1, coin, V2Bought(engine, g.tm, ores, cfg))
                ELSE g.store1)
      ELSE idle(Put(g.store1, coin, g.tm))

(* V2Trader.tickerCheck under changeTrade (Watcher.ts, Ticker) *)
tickerCheck(engine, cfg, store, st, coin, price, okSell, okBuy, bprice, target) ==
  tickerCheckOf(engine, cfg, store, st, coin, price, okBuy, bprice, target,
                V2SellStage(engine, cfg, store, st, coin, price, okSell))

InitV2 ==
  /\ trades \in V2Ledgers
  /\ storedConfig = DefaultConfig
  /\ config = DefaultConfig
  /\ canInvest = 0
  /\ balance = 0
  /\ optimalInvestRatio = 0
  /\ feed = [c \in Coins |-> NoPrice]
  /\ pc = "v2"
  /\ queue = <<>>
  /\ cycle = 0
  /\ calls = <<>>
  /\ stats = [n |-> 0, total |-> 0]
  /\ isNode = FALSE
  /\ last = NoLast
  /\ start = NoStart
  /\ sellFailed = {}
  /\ \E cfg \in V2Configs :
       sl = [ engine |-> cfg.engine, cfg |-> cfg, op |-> "init",
              coin |-> NoCoin, sold |-> FALSE, target |-> NoCoin,
              view |-> NoTrades, reinvested |-> 0, ticks |-> 0 ]

(* Ticker: one record of the list through changeTrade and tickerCheck *)
V2Tick ==
  /\ pc = "v2"
  /\ sl.ticks < MaxV2Ticks
  /\ \E coin \in DOMAIN trades, price \in V2Prices \cup {NoPrice},
        bprice \in V2Prices, okSell \in BOOLEAN, okBuy \in BOOLEAN :
       \E target \in AveragingTargets(sl.engine, sl.cfg, trades, stats, coin,
                                      price, okSell) :
         LET r == tickerCheck(sl.engine, sl.cfg, trades, stats, coin, price,
                              okSell, okBuy, bprice, target)
         IN  /\ trades' = r.store
             /\ stats' = r.stats
             /\ sl' = [sl EXCEPT !.op = "tick", !.coin = coin,
                                 !.sold = r.sold, !.target = r.target,
                                 !.view = r.view,
                                 !.reinvested = r.reinvested,
                                 !.ticks = @ + 1]
  /\ UNCHANGED <<storedConfig, config, canInvest, balance, optimalInvestRatio,
                 feed, pc, queue, cycle, calls, isNode, last, start,
                 sellFailed>>

NextV2 == V2Tick

SpecV2 == InitV2 /\ [][NextV2]_vars

(* Claims about averaging down (specification SpecV2) *)

(* a cycle has sold its asset with averaging-down enabled *)
SoldWithAveraging == sl.op = "tick" /\ sl.sold /\ sl.cfg.AveragingDown

(* C7: after a successful sell with averaging-down enabled the record that *)
(* receives the reinvestment buy is in state BOUGHT and no BOUGHT record   *)
(* has a lower profit percentage; with ADA at -5% and BTC at +10% open the *)
(* buy goes to ADA; with no record in state BOUGHT no buy is made.         *)
C7_ReinvestsIntoLowestProfitBought ==
  SoldWithAveraging =>
    IF BoughtCoins(sl.view) = {}
    THEN sl.target = NoCoin
    ELSE /\ sl.target \in BoughtCoins(sl.view)
         /\ \A d \in BoughtCoins(sl.view) :
              ~LowerProfitPercent(sl.view[d], sl.view[sl.target])

(* C17: when several BOUGHT records share the lowest profit percentage the *)
(* reinvestment target is the one encountered first in the ledger's list   *)
(* order, the same on every run with the same ledger.                      *)
FirstInListOrder(coins) ==
  V2ListOrder[CHOOSE i \in DOMAIN V2ListOrder :
                /\ V2ListOrder[i] \in coins
                /\ \A j \in 1..(i - 1) : V2ListOrder[j] \notin coins]

C17_TieGoesToFirstInListOrder ==
  (SoldWithAveraging /\ sl.target \in lowestProfitTrades(sl.view)) =>
    sl.target = FirstInListOrder(lowestProfitTrades(sl.view))

(* C32: with averaging-down enabled, the record chosen for the             *)
(* reinvestment buy is never the asset whose sale just produced the        *)
(* proceeds, and after the cycle the sold asset's record is SOLD with its  *)
(* sale result while the reinvestment target's record holds the merged     *)
(* buy: the write-back of the outer per-asset update never discards the    *)
(* reinvestment buy and the nested update never discards the sale.         *)
C32_SaleAndReinvestmentBothKept ==
  (SoldWithAveraging /\ sl.target # NoCoin) =>
    /\ sl.target # sl.coin
    /\ trades[sl.coin].state = "SOLD"
    /\ trades[sl.coin].tradeResult = sl.view[sl.coin].tradeResult
    /\ sl.reinvested > 0 =>
         /\ trades[sl.target].state = "BOUGHT"
         /\ trades[sl.target].tradeResult.paid =
              sl.view[sl.target].tradeResult.paid + sl.reinvested

(* the record of the tick's coin before the tick was SOLD *)
TickOfSold ==
  /\ sl'.op = "tick"
  /\ sl'.ticks = sl.ticks + 1
  /\ sl'.coin \in DOMAIN trades
  /\ trades[sl'.coin].state = "SOLD"

(* currentPrice < maxObservedPrice * (1 - ProfitLimit) *)
PriceDropped(tm, cfg) ==
  currentPrice(tm) * RatioScale
    < tm.maxObservedPrice * (RatioScale - cfg.ProfitLimit)

(* C28: a record in state SOLD moves to BUY in a cycle if and only if      *)
(* swing re-entry is enabled and                                           *)
(* currentPrice < maxObservedPrice * (1 - ProfitLimit), the prices being   *)
(* those of the record after the cycle's price; the buy of the same cycle  *)
(* then takes the requested record on only if its price goes up; with      *)
(* swing re-entry disabled a SOLD record never leaves SOLD without an      *)
(* external buy signal.                                                    *)
C28_SwingReentry ==
  [][ TickOfSold =>
        LET old == trades[sl'.coin]
            new == trades'[sl'.coin]
        IN  /\ sl'.coin \in DOMAIN trades'
            /\ new.state # "SOLD" <=>
                 (sl.cfg.SwingTradeEnabled /\ PriceDropped(new, sl.cfg))
            /\ new.state \in {"SOLD", "BUY"} \/ priceGoesUp(new)
            /\ ~sl.cfg.SwingTradeEnabled => new.state = "SOLD" ]_vars

(* C28 witness: a sold record has been requested to buy again by a tick    *)
(* whose price is below maxObservedPrice * (1 - ProfitLimit)               *)
C28_Witness ==
  /\ sl.op = "tick"
  /\ sl.coin \in DOMAIN trades
  /\ sl.cfg.SwingTradeEnabled
  /\ trades[sl.coin].state = "BUY"
  /\ trades[sl.coin].tradeResult.gained > 0
  /\ trades[sl.coin].tradeResult.quantity = 0
  /\ PriceDropped(trades[sl.coin], sl.cfg)

----------------------------------------------------------------------------
(* Fee netting (specification SpecFee): one position bought and then sold  *)
(* through #buy and #sell, the gateway charging a commission in BNB.       *)
(* Money is in thousandths, quantities in thousandths of a coin.           *)

Traders == {"TradeManager", "V2A"}
FeeCoin == CoinOrder[1]
FeeCost == 15000
FeePrices == {8000, 12000}
Commissions == {0, 1}
BNBPrices == {NoPrice, 300000, 305000}

(* f2 and toFixed(2): to the nearest hundredth *)
f2(v) == ((v + 5) \div 10) * 10

(* the ledger's BNB record if it has one: 2 BNB bought for 600 *)
NoBNB == [exists |-> FALSE]
HeldBNB ==
  [ exists |-> TRUE,
    tm |-> setState(joinWithNewTrade(NewTradeMemo(NewTradeResult),
                                     marketBuy(600000, 300000, TRUE)),
                    "BOUGHT") ]

(* updateBNBBalance: addQuantity(quantity, 0) on the BNB record *)
updateBNBBalance(bnb, quantity) ==
  IF bnb.exists
  THEN [ bnb |-> [bnb EXCEPT !.tm.tradeResult.quantity = @ + quantity],
         updated |-> TRUE ]
  ELSE [ bnb |-> bnb, updated |-> FALSE ]

(* processBuyFee: the BNB record and the trade result after it *)
processBuyFee(bnb, buyResult) ==
  LET u == updateBNBBalance(bnb, 0 - buyResult.commission)
  IN  [ bnb |-> u.bnb,
        res |-> IF u.updated THEN [buyResult EXCEPT !.commission = 0]
                ELSE buyResult ]

getBNBCommissionCost(commission, bnbPrice) ==
  IF bnbPrice # NoPrice THEN (commission * bnbPrice) \div QtyScale ELSE 0

(* processSellFee: the BNB record, the trade result and the fee returned *)
processSellFee(tm, bnb, sellResult, bnbPrice) ==
  LET u == updateBNBBalance(bnb, 0 - sellResult.commission)
      res == IF u.updated THEN [sellResult EXCEPT !.commission = 0]
             ELSE sellResult
  IN  [ bnb |-> u.bnb, res |-> res,
        fee |-> getBNBCommissionCost(tm.tradeResult.commission, bnbPrice)
                  + getBNBCommissionCost(res.commission, bnbPrice) ]

(* the gateway's result with the commission it charged *)
Charged(res, commission) ==
  IF res.fromExchange THEN [res EXCEPT !.commission = commission] ELSE res

FeeContext(tm) ==
  [ coin |-> FeeCoin, tm |-> tm, canInvest |-> canInvest, balance |-> balance,
    ratio |-> optimalInvestRatio, calls |-> <<>>, stats |-> stats ]

InitFee ==
  /\ trades = NoTrades
  /\ storedConfig = DefaultConfig
  /\ config = DefaultConfig
  /\ canInvest = 2
  /\ balance = 2 * FeeCost
  /\ optimalInvestRatio = 2
  /\ feed = [c \in Coins |-> NoPrice]
  /\ pc = "fee"
  /\ queue = <<>>
  /\ cycle = 0
  /\ calls = <<>>
  /\ stats = [n |-> 0, total |-> 0]
  /\ isNode = FALSE
  /\ last = NoLast
  /\ start = NoStart
  /\ sellFailed = {}
  /\ \E t \in Traders, b \in {NoBNB, HeldBNB}, bp \in BNBPrices,
        stable \in BOOLEAN :
       sl = [ engine |-> "fee", trader |-> t, op |-> "init",
              tm |-> setState(NewTradeMemo(NewTradeResult), "BUY"),
              bnb |-> b, bnbPrice |-> bp, stable |-> stable,
              raw |-> NewTradeResult, fee |-> 0, before |-> NewTradeResult ]

(* #buy (TradeManager.ts:304-333) and buy (apps-script/Trader.ts:116-131)  *)
FeeBuy ==
  /\ pc = "fee"
  /\ sl.op = "init"
  /\ \E price \in FeePrices, c \in Commissions, ok \in BOOLEAN,
        chMin \in TickChannelMins :
       LET raw == Charged(marketBuy(FeeCost, price, ok), c)
           net == IF raw.fromExchange THEN processBuyFee(sl.bnb, raw)
                  ELSE [bnb |-> sl.bnb, res |-> raw]
           x == BuyResult(FeeContext(sl.tm), FeeCost, raw, config, chMin)
           tm == IF sl.trader = "TradeManager" THEN x.tm
                 ELSE V2Bought("V2A", sl.tm, net.res,
                               [StopLimit |-> 500])
       IN  /\ sl' = [sl EXCEPT !.op = "buy", !.tm = tm, !.bnb = net.bnb,
                                !.raw = raw, !.before = sl.tm.tradeResult]
           /\ calls' = x.calls
           /\ canInvest' = x.canInvest
           /\ balance' = x.balance
  /\ UNCHANGED <<trades, storedConfig, config, optimalInvestRatio, feed, pc,
                 queue, cycle, stats, isNode, last, start, sellFailed>>

(* #sell (TradeManager.ts:335-382) and sell (apps-script/Trader.ts:133-146) *)
FeeSell ==
  /\ pc = "fee"
  /\ sl.op = "buy"
  /\ sl.tm.tradeResult.quantity > 0
  /\ \E price \in FeePrices, c \in Commissions, ok \in BOOLEAN :
       LET raw == Charged(marketSell(sl.tm.tradeResult.quantity, price, ok), c)
           net == IF raw.fromExchange
                  THEN processSellFee(sl.tm, sl.bnb, raw, sl.bnbPrice)
                  ELSE [bnb |-> sl.bnb, res |-> raw, fee |-> 0]
           prof == f2(raw.gained - sl.tm.tradeResult.paid - net.fee)
           x == SellResult(FeeContext(sl.tm), net.res, prof, sl.stable)
       IN  /\ sl' = [sl EXCEPT !.op = "sell",
                                !.tm = IF sl.trader = "TradeManager" THEN x.tm
                                       ELSE V2SoldWith(sl.tm, net.res, prof),
                                !.bnb = net.bnb, !.raw = raw,
                                !.fee = net.fee,
                                !.before = sl.tm.tradeResult]
           /\ calls' = x.calls
           /\ canInvest' = x.canInvest
           /\ balance' = x.balance
           /\ stats' = x.stats
  /\ UNCHANGED <<trades, storedConfig, config, optimalInvestRatio, feed, pc,
                 queue, cycle, isNode, last, start, sellFailed>>

NextFee == FeeBuy \/ FeeSell

SpecFee == InitFee /\ [][NextFee]_vars

(* C25: on a trade whose commission is netted, if the fee-asset record     *)
(* exists its quantity is reduced by the commission with its paid cost     *)
(* unchanged and the commission of the trade result is set to 0, and if it *)
(* does not exist no record is changed and the commission is kept; on a    *)
(* buy the netting is applied before the result is merged into the         *)
(* position record, so that when the fee-asset record exists the position  *)
(* record carries no buy commission and the buy fee is not subtracted      *)
(* again from the profit at sale.                                          *)
C25_CommissionNetting ==
  [][ (sl'.op # sl.op /\ sl'.raw.fromExchange) =>
        IF sl.bnb.exists
        THEN /\ sl'.bnb.tm.tradeResult.quantity
                  = sl.bnb.tm.tradeResult.quantity - sl'.raw.commission
             /\ sl'.bnb.tm.tradeResult.paid = sl.bnb.tm.tradeResult.paid
             /\ sl'.op = "buy" =>
                  sl'.tm.tradeResult.commission = sl.tm.tradeResult.commission
             /\ sl'.op = "sell" =>
                  /\ sl'.tm.tradeResult.commission = 0
                  /\ sl'.fee = 0
        ELSE /\ sl'.bnb = sl.bnb
             /\ sl'.op = "buy" =>
                  sl'.tm.tradeResult.commission
                    = sl.tm.tradeResult.commission + sl'.raw.commission
             /\ sl'.op = "sell" =>
                  sl'.tm.tradeResult.commission = sl'.raw.commission ]_vars

(* the sale has been answered by the gateway *)
Sold == sl.op = "sell" /\ sl.raw.fromExchange

(* gained - paidCost - fee of the sale, before any rounding *)
ExactProfit == sl.raw.gained - sl.before.paid - sl.fee

(* the fee is the commission the record carried and the commission left on *)
(* the sell result, at the fee asset's price, 0 when the price is missing; *)
(* addProfit is called once with the recorded profit for a stable          *)
(* settlement asset and not at all otherwise                               *)
FeeAndStatistics ==
  /\ Sold =>
       /\ sl.fee = getBNBCommissionCost(sl.before.commission, sl.bnbPrice)
                     + getBNBCommissionCost(sl.tm.tradeResult.commission,
                                            sl.bnbPrice)
       /\ sl.bnbPrice = NoPrice => sl.fee = 0
       /\ sl.tm.tradeResult.gained = sl.raw.gained
       /\ stats = IF sl.stable
                  THEN [n |-> 1, total |-> sl.tm.tradeResult.profit]
                  ELSE [n |-> 0, total |-> 0]
  /\ ~Sold => stats = [n |-> 0, total |-> 0]

(* C26 as stated: on a successful sell the recorded profit equals          *)
(* gained - paidCost - fee.                                                *)
C26_ProfitIsGainedLessPaidLessFee ==
  /\ Sold => sl.tm.tradeResult.profit = ExactProfit
  /\ FeeAndStatistics

(* C26, amended: on a successful sell the recorded profit equals           *)
(* gained - paidCost - fee rounded to two decimals, where fee is the buy   *)
(* and sell commissions converted at the fee asset's current price and 0   *)
(* when that price is missing; addProfit is called exactly once with that  *)
(* profit when the settlement asset is a recognized stable asset, and is   *)
(* never called for a failed sell or a non-stable settlement asset.        *)
C26_ProfitRoundedToCents ==
  /\ Sold =>
       /\ sl.tm.tradeResult.profit = f2(ExactProfit)
       /\ sl.tm.tradeResult.profit % 10 = 0
       /\ sl.tm.tradeResult.profit - ExactProfit \in (0 - 4)..5
  /\ FeeAndStatistics

(* C26 witness: a sale for a stable settlement asset with a fee of 0.305,  *)
(* the profit recorded and added to the statistics once, half a cent above *)
(* gained - paidCost - fee                                                 *)
C26_Witness ==
  /\ Sold
  /\ sl.stable
  /\ sl.fee = 305
  /\ sl.tm.tradeResult.profit = ExactProfit + 5
  /\ stats.n = 1

----------------------------------------------------------------------------
(* TradeManager.sellAll (specification SpecLiquidate): the liquidation of  *)
(* a ledger, with and without immediate execution.                         *)

MaxLiquidations == 2

(* a record without quantity, requested to buy or idle, and a record       *)
(* bought for MIN_BUSD_BUY at 12, held, requested to sell or to buy        *)
LedgerRecords ==
  {[NewTradeMemo(NewTradeResult) EXCEPT !.prices = <<10>>, !.state = s] :
     s \in {"IDLE", "BUY"}}
  \cup
  {[HeldLedger[CoinOrder[1]] EXCEPT !.state = s] :
     s \in {"BOUGHT", "SELL", "BUY"}}

Ledgers ==
  {tr \in UNION {[cs -> LedgerRecords] : cs \in SUBSET Coins} : TRUE}

(* mutant: every record is set to SELL *)
ToLiquidate_Every(tm) == TRUE

(* sellAll, line 122: the record holds quantity *)
ToLiquidate(tm) == tm.tradeResult.quantity > 0

(* sellAll, lines 120-127: the mutator of tradesDao.iterate, over the      *)
(* records in the order of coins; acc is the manager's state and the       *)
(* ledger so far, after[c] the record the mutator returned for c           *)
RECURSIVE sellAllOver(_, _, _, _, _)
sellAllOver(coins, acc, sellNow, price, ok) ==
  IF coins = <<>> THEN acc
  ELSE LET c == Head(coins) IN
       IF c \notin DOMAIN acc.trades
       THEN sellAllOver(Tail(coins), acc, sellNow, price, ok)
       ELSE LET tm1 == resetState(acc.trades[c])
                x0 == [ coin |-> c, tm |-> tm1, canInvest |-> acc.canInvest,
                        balance |-> acc.balance, ratio |-> acc.ratio,
                        calls |-> acc.calls, stats |-> acc.stats ]
                x1 == [x0 EXCEPT !.tm = setState(tm1, "SELL")]
                x == IF ToLiquidate(tm1)
                     THEN IF sellNow THEN Sell(x1, price, ok[c]) ELSE x1
                     ELSE x0
           IN  sellAllOver(Tail(coins),
                 [ trades |-> DaoWrite(acc.trades, c, x.tm),
                   canInvest |-> x.canInvest, balance |-> x.balance,
                   ratio |-> acc.ratio, calls |-> x.calls, stats |-> x.stats,
                   after |-> Put(acc.after, c, x.tm) ],
                 sellNow, price, ok)

InitLiquidate ==
  /\ trades \in Ledgers
  /\ \E b \in StartBalances :
       storedConfig = [DefaultConfig EXCEPT !.StableBalance = b]
  /\ config = storedConfig
  /\ canInvest \in {0, 1}
  /\ balance = 0
  /\ optimalInvestRatio = 2
  /\ feed = [c \in Coins |-> NoPrice]
  /\ pc = "idle"
  /\ queue = <<>>
  /\ cycle = 0
  /\ calls = <<>>
  /\ stats = [n |-> 0, total |-> 0]
  /\ isNode = FALSE
  /\ last = NoLast
  /\ start = NoStart
  /\ sellFailed = {}
  /\ sl = NoRecord

(* TradeManager.sellAll(sellNow) *)
SellAll ==
  /\ pc = "idle"
  /\ cycle < MaxLiquidations
  /\ \E sellNow \in BOOLEAN, price \in Prices, ok \in [Coins -> BOOLEAN] :
       LET cfg == ConfigDaoGet(storedConfig) IN
       \E xb \in IF cfg.StableBalance = -1 THEN ExchangeBalances ELSE {0} :
         LET acc == sellAllOver(CoinOrder,
                      [ trades |-> trades, canInvest |-> canInvest,
                        balance |-> initBalance(cfg, xb),
                        ratio |-> optimalInvestRatio, calls |-> <<>>,
                        stats |-> stats, after |-> NoTrades ],
                      sellNow, price, ok)
             diff == acc.balance - cfg.StableBalance
             done == persistedConfig(cfg, ConfigDaoGet(storedConfig), diff)
         IN  /\ trades' = acc.trades
             /\ canInvest' = acc.canInvest
             /\ calls' = acc.calls
             /\ stats' = acc.stats
             /\ sellFailed' = FailedAfter(sellFailed, acc.calls)
             /\ IF diff # 0
                THEN /\ config' = done
                     /\ balance' = done.StableBalance
                     /\ storedConfig' = ConfigDaoSet(done)
                ELSE /\ config' = cfg
                     /\ balance' = acc.balance
                     /\ UNCHANGED storedConfig
             /\ sl' = [ engine |-> "sellAll", sellNow |-> sellNow,
                        before |-> trades, after |-> acc.after,
                        balance |-> initBalance(cfg, xb) ]
  /\ cycle' = cycle + 1
  /\ UNCHANGED <<optimalInvestRatio, feed, pc, queue, isNode, last, start>>

NextLiquidate == SellAll

SpecLiquidate == InitLiquidate /\ [][NextLiquidate]_vars

CallsOf(c) == {i \in DOMAIN calls : calls[i].coin = c}

(* C27: liquidation (sellAll) resets the transient state of every record   *)
(* and sets state SELL on exactly the records with quantity > 0; records   *)
(* with quantity 0 are never set to SELL; with immediate execution each    *)
(* such record is sold in the same call (ending SOLD and deleted when the  *)
(* gateway succeeds, BOUGHT when it fails), without it no gateway call is  *)
(* made, and the balance delta is reconciled once at the end.              *)
C27_Liquidation ==
  sl.engine = "sellAll" =>
    /\ DOMAIN sl.after = DOMAIN sl.before
    /\ \A c \in DOMAIN sl.before :
         LET old == sl.before[c]
             new == sl.after[c]
         IN  IF old.tradeResult.quantity > 0
             THEN IF sl.sellNow
                  THEN /\ Cardinality(CallsOf(c)) = 1
                       /\ \A i \in CallsOf(c) :
                            /\ calls[i].kind = "sell"
                            /\ calls[i].arg = old.tradeResult.quantity
                            /\ IF calls[i].ok
                               THEN /\ new.state = "SOLD"
                                    /\ new.deleted
                                    /\ c \notin DOMAIN trades
                               ELSE /\ new = setState(old, "BOUGHT")
                                    /\ trades[c] = new
                  ELSE /\ new = setState(old, "SELL")
                       /\ trades[c] = new
             ELSE /\ new = resetState(old)
                  /\ trades[c] = new
                  /\ CallsOf(c) = {}
    /\ ~sl.sellNow => calls = <<>>
    /\ balance = sl.balance + CallsDelta(calls)
    /\ storedConfig.StableBalance = balance

(* C27 witness: a liquidation with immediate execution of a ledger with a  *)
(* held record that was sold, a held record whose sale failed and was left *)
(* BOUGHT, the gain reconciled                                             *)
C27_Witness ==
  /\ sl.engine = "sellAll"
  /\ sl.sellNow
  /\ \E c \in DOMAIN sl.before : sl.after[c].state = "SOLD"
  /\ \E c \in DOMAIN trades : /\ trades[c].state = "BOUGHT"
                               /\ CallsOf(c) # {}
  /\ storedConfig.StableBalance > sl.balance

----------------------------------------------------------------------------
(* The plugin's signals (specification SpecSignals): trade() on ledgers    *)
(* with records of every kind, the signals of the cycle kept in            *)
(* start.signals.                                                          *)

MaxSignalRounds == 1

SignalLedgers ==
  {tr \in Ledgers : \A c \in DOMAIN tr : tr[c].state \in {"IDLE", "BOUGHT"}}

InitSignals ==
  /\ trades \in SignalLedgers
  /\ storedConfig = [DefaultConfig EXCEPT !.StableBalance = 20]
  /\ config = storedConfig
  /\ canInvest = 1
  /\ balance = 0
  /\ optimalInvestRatio = 2
  /\ feed = [c \in Coins |-> NoPrice]
  /\ pc = "idle"
  /\ queue = <<>>
  /\ cycle = 0
  /\ calls = <<>>
  /\ stats = [n |-> 0, total |-> 0]
  /\ isNode = FALSE
  /\ last = NoLast
  /\ start = NoStart
  /\ sellFailed = {}
  /\ sl = NoRecord

NextSignals ==
  \/ TradeStartNoting(MaxSignalRounds, TRUE)
  \/ CheckTradeStep
  \/ PersistBalance

SpecSignals == InitSignals /\ [][NextSignals]_vars

(* C29: a buy signal for an asset with no existing record creates a record *)
(* for it in state BUY with quantity 0, a buy signal for an existing       *)
(* record sets that record to BUY, and a sell signal sets SELL only on an  *)
(* existing record with quantity > 0: a sell signal for an absent asset or *)
(* a record with quantity 0 changes nothing and creates no record.         *)
C29_SignalsSetRequests ==
  [][ (pc = "idle" /\ pc' = "trade") =>
        \A c \in Coins :
          LET s == start'.signals[c]
              was == c \in DOMAIN trades
              is == c \in DOMAIN trades'
          IN  /\ s = "Buy" =>
                   /\ is
                   /\ was => trades'[c] = setState(trades[c], "BUY")
                   /\ ~was => /\ trades'[c].state = "BUY"
                              /\ trades'[c].tradeResult = NewTradeResult
              /\ s = "Sell" =>
                   IF was /\ trades[c].tradeResult.quantity > 0
                   THEN is /\ trades'[c] = setState(trades[c], "SELL")
                   ELSE /\ is <=> was
                        /\ was => trades'[c] = trades[c]
              /\ s = "None" =>
                   /\ is <=> was
                   /\ was => trades'[c] = trades[c] ]_vars

(* C29 witness: a cycle has started with a sell signal for an asset        *)
(* without a record and a sell signal for a record without quantity, which *)
(* is left idle                                                            *)
C29_Witness ==
  /\ pc = "trade"
  /\ last = NoLast
  /\ \E c, d \in Coins :
       /\ start.signals[c] = "Sell"
       /\ start.signals[d] = "Sell"
       /\ c \notin DOMAIN trades
       /\ d \in DOMAIN trades
       /\ trades[d].tradeResult.quantity = 0
       /\ trades[d].state = "IDLE"

----------------------------------------------------------------------------
(* Exceptions in the bookkeeping of #buy and #sell (specification          *)
(* SpecFault): one position bought and then sold through TradeManager,     *)
(* a step of the operation throwing. Money and quantities as in SpecFee.   *)

(* the step of #buy that throws: the gateway call itself, the merge, the   *)
(* stop-limit reset (channelsDao.get returns nothing), the fee netting     *)
BuyFaults == {"none", "gateway", "join", "stopLimit", "fee"}

(* the step of #sell that throws: the gateway call, the update of the fee  *)
(* record, the fee's price lookup, the profit, the statistics              *)
SellFaults == {"none", "gateway", "feeUpdate", "feePrice", "profit",
               "statistics"}

FaultTTL == 3

(* mutant: the state set as the last statement of the try block *)
BuyCompletion_InTry(tm, thrown) ==
  IF thrown THEN tm ELSE setState(tm, "BOUGHT")

(* #buy, lines 323-327: catch logs the error, finally sets BOUGHT *)
BuyCompletion(tm, thrown) == setState(tm, "BOUGHT")

(* #sell, lines 364-371 and 381: catch logs the error, finally stores the  *)
(* sell result and sets SOLD and ttl 0; deleted follows the state          *)
SellCompletion(memo, tradeResult, thrown) ==
  LET t1 == setState([memo EXCEPT !.tradeResult = tradeResult], "SOLD")
  IN  [t1 EXCEPT !.ttl = 0, !.deleted = stateIs(t1, "SOLD")]

(* TradeManager.#buy with the step `at` throwing: the context, the fee     *)
(* record and whether the exception leaves #buy                            *)
BuyThrowing(x, cost, res, cfg, chMin, bnb, at) ==
  IF at = "gateway"
  THEN [x |-> x, bnb |-> bnb, escaped |-> TRUE]
  ELSE
    LET x1 == [x EXCEPT !.calls = Append(@, BuyCall(x.coin, cost, res, x))]
        tm1 == [x.tm EXCEPT !.prices = <<res.price>>]
        tm2 == IF at = "join" THEN tm1 ELSE joinWithNewTrade(tm1, res)
        tm3 == IF at = "join" THEN tm2
               ELSE IF at = "stopLimit"
                    THEN [tm2 EXCEPT !.ttl = 0, !.stopLimitPrice = 0]
                    ELSE forceUpdateStopLimit(tm2, cfg, chMin)
        bnb1 == IF at = "none" THEN processBuyFee(bnb, res).bnb ELSE bnb
    IN  IF res.fromExchange
        THEN [ x |-> [x1 EXCEPT !.canInvest = Max(0, @ - 1),
                                !.balance = @ - res.paid,
                                !.tm = BuyCompletion(tm3, at # "none")],
               bnb |-> bnb1, escaped |-> FALSE ]
        ELSE [ x |-> BuyFailed(x1), bnb |-> bnb, escaped |-> FALSE ]

(* TradeManager.#sell with the step `at` throwing *)
SellThrowing(x, res, bnb, bnbPrice, stable, at) ==
  IF at = "gateway"
  THEN [x |-> x, bnb |-> bnb, escaped |-> TRUE]
  ELSE
    LET x1 == [x EXCEPT !.calls =
                 Append(@, SellCall(x.coin, x.tm.tradeResult.quantity, res, x))]
        net == processSellFee(x.tm, bnb, res, bnbPrice)
        \* the trade result as the throw leaves it
        res1 == IF at = "feeUpdate" THEN res ELSE net.res
        prof == f2(res.gained - x.tm.tradeResult.paid - net.fee)
        res2 == IF at \in {"feeUpdate", "feePrice", "profit"} THEN res1
                ELSE [res1 EXCEPT !.profit = prof]
    IN  IF res.fromExchange
        THEN [ x |-> [x1 EXCEPT
                        !.canInvest = CanInvestAfterSell(x.ratio, @),
                        !.balance = @ + res.gained,
                        !.stats = IF at = "none"
                                  THEN updatePLStatistics(@, stable, prof)
                                  ELSE @,
                        !.tm = SellCompletion(x.tm, res2, at # "none")],
               bnb |-> IF at = "feeUpdate" THEN bnb ELSE net.bnb,
               escaped |-> FALSE ]
        ELSE [ x |-> [x1 EXCEPT !.tm = [setState(x.tm, "BOUGHT")
                                          EXCEPT !.deleted = FALSE]],
               bnb |-> bnb, escaped |-> FALSE ]

InitFault ==
  /\ trades = NoTrades
  /\ storedConfig = DefaultConfig
  /\ config = DefaultConfig
  /\ canInvest = 2
  /\ balance = 2 * FeeCost
  /\ optimalInvestRatio = 2
  /\ feed = [c \in Coins |-> NoPrice]
  /\ pc = "fault"
  /\ queue = <<>>
  /\ cycle = 0
  /\ calls = <<>>
  /\ stats = [n |-> 0, total |-> 0]
  /\ isNode = FALSE
  /\ last = NoLast
  /\ start = NoStart
  /\ sellFailed = {}
  /\ \E b \in {NoBNB, HeldBNB}, bp \in BNBPrices :
       sl = [ engine |-> "fault", op |-> "init", at |-> "none",
              tm |-> setState(NewTradeMemo(NewTradeResult), "BUY"),
              bnb |-> b, bnbPrice |-> bp, raw |-> NewTradeResult,
              escaped |-> FALSE, before |-> NewTradeMemo(NewTradeResult) ]

(* #buy (TradeManager.ts:304-333) *)
FaultBuy ==
  /\ pc = "fault"
  /\ sl.op = "init"
  /\ \E price \in FeePrices, c \in Commissions, ok \in BOOLEAN,
        chMin \in TickChannelMins, at \in BuyFaults :
       LET raw == Charged(marketBuy(FeeCost, price, ok), c)
           r == BuyThrowing(FeeContext(sl.tm), FeeCost, raw, config, chMin,
                            sl.bnb, at)
       IN  /\ sl' = [sl EXCEPT !.op = "buy", !.at = at, !.tm = r.x.tm,
                                !.bnb = r.bnb, !.raw = raw,
                                !.escaped = r.escaped, !.before = sl.tm]
           /\ calls' = r.x.calls
           /\ canInvest' = r.x.canInvest
           /\ balance' = r.x.balance
  /\ UNCHANGED <<trades, storedConfig, config, optimalInvestRatio, feed, pc,
                 queue, cycle, stats, isNode, last, start, sellFailed>>

(* the cycles of processBoughtState between the buy and the sell: the ttl  *)
(* counted up (TradeManager.ts:221-225)                                    *)
FaultHold ==
  /\ pc = "fault"
  /\ sl.op = "buy"
  /\ sl.tm.state = "BOUGHT"
  /\ sl.tm.tradeResult.quantity > 0
  /\ sl' = [sl EXCEPT !.op = "hold", !.at = "none",
                      !.tm = [@ EXCEPT !.ttl = @ + FaultTTL],
                      !.escaped = FALSE, !.before = sl.tm]
  /\ UNCHANGED <<trades, storedConfig, config, canInvest, balance,
                 optimalInvestRatio, feed, pc, queue, cycle, calls, stats,
                 isNode, last, start, sellFailed>>

(* #sell (TradeManager.ts:335-382) *)
FaultSell ==
  /\ pc = "fault"
  /\ sl.op = "hold"
  /\ \E price \in FeePrices, c \in Commissions, ok \in BOOLEAN,
        stable \in BOOLEAN, at \in SellFaults :
       LET raw == Charged(marketSell(sl.tm.tradeResult.quantity, price, ok), c)
           r == SellThrowing(FeeContext(sl.tm), raw, sl.bnb, sl.bnbPrice,
                             stable, at)
       IN  /\ sl' = [sl EXCEPT !.op = "sell", !.at = at, !.tm = r.x.tm,
                                !.bnb = r.bnb, !.raw = raw,
                                !.escaped = r.escaped, !.before = sl.tm]
           /\ calls' = r.x.calls
           /\ canInvest' = r.x.canInvest
           /\ balance' = r.x.balance
           /\ stats' = r.x.stats
  /\ UNCHANGED <<trades, storedConfig, config, optimalInvestRatio, feed, pc,
                 queue, cycle, isNode, last, start, sellFailed>>

NextFault == FaultBuy \/ FaultHold \/ FaultSell

SpecFault == InitFault /\ [][NextFault]_vars

(* the gateway was reached and reported the order as executed *)
GatewaySucceeded == sl.at # "gateway" /\ sl.raw.fromExchange

(* C31: if the gateway reports a buy as successful, the record ends the    *)
(* buy operation in state BOUGHT even when a bookkeeping step after the    *)
(* gateway call (merge, stop-limit reset, fee netting) throws; if the      *)
(* gateway reports a sell as successful, the record ends the sell          *)
(* operation in state SOLD with ttl = 0 and deleted = true even when the   *)
(* fee, profit or statistics bookkeeping throws; in neither case does the  *)
(* exception leave the operation.                                          *)
C31_StateSetDespiteException ==
  /\ (sl.op = "buy" /\ GatewaySucceeded) =>
       /\ sl.tm.state = "BOUGHT"
       /\ ~sl.escaped
  /\ (sl.op = "sell" /\ GatewaySucceeded) =>
       /\ sl.tm.state = "SOLD"
       /\ sl.tm.ttl = 0
       /\ sl.tm.deleted
       /\ sl.tm.tradeResult.fromExchange
       /\ ~sl.escaped

(* C31 witness: a sell whose statistics step threw, after a buy whose      *)
(* stop-limit reset threw, the record sold with ttl back from 3 to 0       *)
C31_Witness ==
  /\ sl.op = "sell"
  /\ GatewaySucceeded
  /\ sl.at = "statistics"
  /\ sl.before.ttl = FaultTTL
  /\ sl.before.stopLimitPrice = 0
  /\ sl.before.tradeResult.quantity > 0
  /\ sl.tm.tradeResult.gained > 0
  /\ sl.tm.state = "SOLD"
  /\ stats.n = 0

----------------------------------------------------------------------------
(* WithdrawalsManager.addWithdrawal on its own (specification              *)
(* SpecWithdraw): calls with drawn amounts against a persisted             *)
(* configuration and an exchange balance. Money in units.                  *)

MaxWithdrawals == 2

PersistedBalances == {-1, 0, 5, 10, 20}
WithdrawAmounts == {1, 5, 10, 25}
WithdrawExchangeBalances == {0, 5, 10, 40}

NoWithdrawals == [n |-> 0, total |-> 0]

(* Statistics.addWithdrawal *)
recordWithdrawal(st, amount) == [n |-> st.n + 1, total |-> st.total + amount]

(* mutant: only the internal balance checked *)
WithdrawalRefused_InternalOnly(amount, stableBalance, exchangeBalance) ==
  amount > stableBalance

(* addWithdrawal, lines 16-27: the two checks that throw *)
WithdrawalRefused(amount, stableBalance, exchangeBalance) ==
  amount > stableBalance \/ amount > exchangeBalance

(* WithdrawalsManager.addWithdrawal: the persisted configuration and the   *)
(* statistics after the call, whether it threw, and the balance returned   *)
addWithdrawal(store, st, amount, exchangeBalance) ==
  LET cfg == ConfigDaoGet(store)
      latestConfig == [ConfigDaoGet(store) EXCEPT !.StableBalance = @ - amount]
  IN  IF WithdrawalRefused(amount, cfg.StableBalance, exchangeBalance)
      THEN [ store |-> store, stats |-> st, error |-> TRUE, balance |-> 0 ]
      ELSE [ store |-> ConfigDaoSet(latestConfig),
             stats |-> recordWithdrawal(st, amount),
             error |-> FALSE,
             balance |-> latestConfig.StableBalance ]

InitWithdraw ==
  /\ trades = NoTrades
  /\ \E b \in PersistedBalances :
       storedConfig = [DefaultConfig EXCEPT !.StableBalance = b]
  /\ config = DefaultConfig
  /\ canInvest = 0
  /\ balance = 0
  /\ optimalInvestRatio = 0
  /\ feed = [c \in Coins |-> NoPrice]
  /\ pc = "withdraw"
  /\ queue = <<>>
  /\ cycle = 0
  /\ calls = <<>>
  /\ stats = [n |-> 0, total |-> 0]
  /\ isNode = FALSE
  /\ last = NoLast
  /\ start = NoStart
  /\ sellFailed = {}
  /\ sl = [ engine |-> "withdraw", op |-> "init", n |-> 0, amount |-> 0,
            exchange |-> 0, before |-> 0, recorded |-> NoWithdrawals,
            withdrawals |-> NoWithdrawals, error |-> FALSE, returned |-> 0 ]

(* one call of addWithdrawal (WithdrawalsManager.ts:12-38) *)
AddWithdrawalCall ==
  /\ pc = "withdraw"
  /\ sl.n < MaxWithdrawals
  /\ \E amount \in WithdrawAmounts, xb \in WithdrawExchangeBalances :
       LET r == addWithdrawal(storedConfig, sl.withdrawals, amount, xb)
       IN  /\ storedConfig' = r.store
           /\ sl' = [sl EXCEPT !.op = "withdraw", !.n = @ + 1,
                                !.amount = amount, !.exchange = xb,
                                !.before = storedConfig.StableBalance,
                                !.recorded = sl.withdrawals,
                                !.withdrawals = r.stats,
                                !.error = r.error, !.returned = r.balance]
  /\ UNCHANGED <<trades, config, canInvest, balance, optimalInvestRatio, feed,
                 pc, queue, cycle, calls, stats, isNode, last, start,
                 sellFailed>>

NextWithdraw == AddWithdrawalCall

SpecWithdraw == InitWithdraw /\ [][NextWithdraw]_vars

(* C33: addWithdrawal(amount) fails with an error, leaving the persisted   *)
(* StableBalance and the withdrawal statistics unchanged, whenever         *)
(* amount > persisted StableBalance or amount > the settlement-asset       *)
(* balance reported by the exchange; otherwise it decreases the persisted  *)
(* StableBalance by exactly amount, records the withdrawal exactly once    *)
(* and returns the new balance.                                            *)
C33_WithdrawalChecked ==
  sl.op = "withdraw" =>
    IF sl.amount > sl.before \/ sl.amount > sl.exchange
    THEN /\ sl.error
         /\ storedConfig.StableBalance = sl.before
         /\ sl.withdrawals = sl.recorded
    ELSE /\ ~sl.error
         /\ storedConfig.StableBalance = sl.before - sl.amount
         /\ sl.withdrawals.n = sl.recorded.n + 1
         /\ sl.withdrawals.total = sl.recorded.total + sl.amount
         /\ sl.returned = storedConfig.StableBalance

(* C33 witness: a second withdrawal accepted after a first, and the        *)
(* balance that remains                                                    *)
C33_Witness ==
  /\ sl.op = "withdraw"
  /\ sl.n = 2
  /\ ~sl.error
  /\ sl.before = 10
  /\ sl.amount = 10
  /\ sl.recorded.n = 1
  /\ sl.withdrawals.n = 2
  /\ storedConfig.StableBalance = 0

----------------------------------------------------------------------------
(* addWithdrawal running while a trade cycle reconciles its balance        *)
(* (specification SpecRace): two executions over one persisted             *)
(* configuration, each read and each write of the configuration store one  *)
(* step. The cycle read its configuration when it started.                 *)

RaceBalances == {10, 20}
RaceDeltas == {-10, -5, 0, 5}
RaceAmounts == {5, 10}
RaceExchangeBalances == {5, 40}

InitRace ==
  /\ trades = NoTrades
  /\ \E b \in RaceBalances, d \in RaceDeltas, a \in RaceAmounts,
        xb \in RaceExchangeBalances :
       /\ storedConfig = [DefaultConfig EXCEPT !.StableBalance = b]
       /\ config = storedConfig
       /\ balance = b + d
       /\ sl = [ engine |-> "race", withdrawal |-> "called", amount |-> a,
                 exchange |-> xb, latestConfig |-> DefaultConfig,
                 left |-> 0, withdrawals |-> NoWithdrawals,
                 diff |-> 0, started |-> b, delta |-> d ]
  /\ canInvest = 0
  /\ optimalInvestRatio = 0
  /\ feed = [c \in Coins |-> NoPrice]
  /\ pc = "persist"
  /\ queue = <<>>
  /\ cycle = 0
  /\ calls = <<>>
  /\ stats = [n |-> 0, total |-> 0]
  /\ isNode = FALSE
  /\ last = NoLast
  /\ start = NoStart
  /\ sellFailed = {}

(* addWithdrawal, lines 13-27: the first read of the configuration and the *)
(* two checks                                                              *)
WithdrawCheck ==
  /\ sl.engine = "race"
  /\ sl.withdrawal = "called"
  /\ LET cfg == ConfigDaoGet(storedConfig)
     IN  sl' = [sl EXCEPT !.withdrawal =
                  IF WithdrawalRefused(sl.amount, cfg.StableBalance, sl.exchange)
                  THEN "refused" ELSE "accepted"]
  /\ UNCHANGED <<trades, storedConfig, config, canInvest, balance,
                 optimalInvestRatio, feed, pc, queue, cycle, calls, stats,
                 isNode, last, start, sellFailed>>

(* addWithdrawal, lines 30-31: the second read *)
WithdrawLatest ==
  /\ sl.engine = "race"
  /\ sl.withdrawal = "accepted"
  /\ sl' = [sl EXCEPT !.withdrawal = "read",
                      !.latestConfig =
                        [ConfigDaoGet(storedConfig) EXCEPT
                           !.StableBalance = @ - sl.amount]]
  /\ UNCHANGED <<trades, storedConfig, config, canInvest, balance,
                 optimalInvestRatio, feed, pc, queue, cycle, calls, stats,
                 isNode, last, start, sellFailed>>

(* addWithdrawal, lines 32-37: the statistics and the write *)
WithdrawSet ==
  /\ sl.engine = "race"
  /\ sl.withdrawal = "read"
  /\ storedConfig' = ConfigDaoSet(sl.latestConfig)
  /\ sl' = [sl EXCEPT !.withdrawal = "done",
                      !.withdrawals = recordWithdrawal(@, sl.amount),
                      !.left = sl.latestConfig.StableBalance]
  /\ UNCHANGED <<trades, config, canInvest, balance, optimalInvestRatio, feed,
                 pc, queue, cycle, calls, stats, isNode, last, start,
                 sellFailed>>

(* #persistBalance, lines 140-142: the delta and the fresh read *)
PersistRead ==
  /\ sl.engine = "race"
  /\ pc = "persist"
  /\ LET diff == balance - config.StableBalance
     IN  IF diff # 0
         THEN /\ config' = ConfigDaoGet(storedConfig)
              /\ sl' = [sl EXCEPT !.diff = diff]
              /\ pc' = "persisting"
         ELSE /\ pc' = "persisted"
              /\ UNCHANGED <<config, sl>>
  /\ UNCHANGED <<trades, storedConfig, canInvest, balance, optimalInvestRatio,
                 feed, queue, cycle, calls, stats, isNode, last, start,
                 sellFailed>>

(* #persistBalance, lines 143-145: the delta added and the write *)
PersistSet ==
  /\ sl.engine = "race"
  /\ pc = "persisting"
  /\ LET cfg == persistedConfig(config, config, sl.diff)
     IN  /\ config' = cfg
         /\ balance' = cfg.StableBalance
         /\ storedConfig' = ConfigDaoSet(cfg)
  /\ pc' = "persisted"
  /\ UNCHANGED <<trades, canInvest, optimalInvestRatio, feed, queue, cycle,
                 calls, stats, isNode, last, start, sellFailed, sl>>

NextRace ==
  \/ WithdrawCheck
  \/ WithdrawLatest
  \/ WithdrawSet
  \/ PersistRead
  \/ PersistSet

SpecRace == InitRace /\ [][NextRace]_vars

(* the balance an accepted withdrawal wrote *)
WithdrawalLeavesNonNegative == sl.withdrawal = "done" => sl.left >= 0

(* the persisted balance once both executions have ended *)
BothCompleted ==
  (sl.withdrawal = "done" /\ pc = "persisted") =>
    storedConfig.StableBalance = sl.started + sl.delta - sl.amount

(* C34: for every interleaving of addWithdrawal with a trade cycle's       *)
(* end-of-cycle balance reconciliation on the same persisted               *)
(* configuration, an accepted withdrawal never leaves the persisted        *)
(* StableBalance below 0, and after both have completed the persisted      *)
(* StableBalance equals the starting balance plus the cycle's delta minus  *)
(* the withdrawn amount.                                                   *)
C34_WithdrawalAndReconciliation ==
  WithdrawalLeavesNonNegative /\ BothCompleted

----------------------------------------------------------------------------
(* Watcher (src/src/gas/Watcher.ts): the project's triggers under Start    *)
(* and Stop (specification SpecWatcher), a call of ScriptApp that creates  *)
(* or deletes a trigger succeeding or throwing                             *)

MaxWatcherCalls == 4

TickerName == "Ticker"

(* the triggers of the project that are not the Watcher's *)
OtherTriggers == {<<>>, <<[handler |-> "Other", id |-> 0]>>}

TickerTriggers(triggers) ==
  {i \in DOMAIN triggers : triggers[i].handler = TickerName}

(* Array.prototype.find: the index of the first Ticker trigger, 0 if none *)
FindTicker(triggers) ==
  IF TickerTriggers(triggers) = {} THEN 0
  ELSE CHOOSE i \in TickerTriggers(triggers) :
         \A j \in TickerTriggers(triggers) : i <= j

RemoveAt(s, i) == SubSeq(s, 1, i - 1) \o SubSeq(s, i + 1, Len(s))

(* Watcher.stop: deleteTrigger on the trigger found; a throw is logged     *)
WatcherStop(w, okDelete) ==
  LET i == FindTicker(w.triggers)
  IN  IF i = 0 THEN w
      ELSE IF okDelete
      THEN [w EXCEPT !.triggers = RemoveAt(@, i)]
      ELSE [w EXCEPT !.errors = @ + 1]

(* Watcher.start: newTrigger(...).create(); a throw is logged *)
WatcherStart(w, okCreate) ==
  IF okCreate
  THEN [w EXCEPT !.triggers = Append(@, [handler |-> TickerName,
                                         id |-> w.nextId]),
                 !.nextId = @ + 1]
  ELSE [w EXCEPT !.errors = @ + 1]

InitWatcher ==
  /\ trades = NoTrades
  /\ storedConfig = DefaultConfig
  /\ config = DefaultConfig
  /\ canInvest = 0
  /\ balance = 0
  /\ optimalInvestRatio = 0
  /\ feed = [c \in Coins |-> NoPrice]
  /\ pc = "watcher"
  /\ queue = <<>>
  /\ cycle = 0
  /\ calls = <<>>
  /\ stats = [n |-> 0, total |-> 0]
  /\ isNode = FALSE
  /\ last = NoLast
  /\ start = NoStart
  /\ sellFailed = {}
  /\ \E others \in OtherTriggers :
       sl = [ engine |-> "watcher", op |-> "init", triggers |-> others,
              nextId |-> 1, errors |-> 0, n |-> 0 ]

(* global.Start: Stop(), then Watcher.start() *)
Start ==
  /\ pc = "watcher"
  /\ sl.n < MaxWatcherCalls
  /\ \E okDelete \in BOOLEAN, okCreate \in BOOLEAN :
       sl' = [WatcherStart(WatcherStop(sl, okDelete), okCreate)
                EXCEPT !.op = "Start", !.n = @ + 1]
  /\ UNCHANGED <<trades, storedConfig, config, canInvest, balance,
                 optimalInvestRatio, feed, pc, queue, cycle, calls, stats,
                 isNode, last, start, sellFailed>>

(* global.Stop: Watcher.stop() *)
Stop ==
  /\ pc = "watcher"
  /\ sl.n < MaxWatcherCalls
  /\ \E okDelete \in BOOLEAN :
       sl' = [WatcherStop(sl, okDelete) EXCEPT !.op = "Stop", !.n = @ + 1]
  /\ UNCHANGED <<trades, storedConfig, config, canInvest, balance,
                 optimalInvestRatio, feed, pc, queue, cycle, calls, stats,
                 isNode, last, start, sellFailed>>

NextWatcher == Start \/ Stop

SpecWatcher == InitWatcher /\ [][NextWatcher]_vars

(* the number of time-based Ticker triggers installed *)
Installed == Cardinality(TickerTriggers(sl.triggers))

(* C35: after any sequence of Start and Stop calls beginning with no       *)
(* trigger installed, at most one time-based Ticker trigger exists; after  *)
(* Start exactly one exists and after Stop none exists, also when a        *)
(* trigger creation or deletion call fails (the failure is logged and      *)
(* swallowed).                                                             *)
C35_OneTickerTrigger ==
  /\ Installed <= 1
  /\ sl.op = "Start" => Installed = 1
  /\ sl.op = "Stop" => Installed = 0

(* the same with no call of ScriptApp having thrown *)
OneTickerTriggerWithoutFailure ==
  sl.errors = 0 => C35_OneTickerTrigger

----------------------------------------------------------------------------
(* The stop-loss trader (src/v2/Trader.ts): one asset bought, sold by hand *)
(* and watched by the stop-loss pass (specification SpecStopLoss).         *)
(* Prices in thousandths; LossLimit is the stored default 0.03.            *)

MaxStopLossCalls == 3

LossLimitPercent == 3
StopLossPrices == {9000, 9700, 10000, 10100, 10200, 10600}
MAX_SAFE_INTEGER == 2147483647

NoTracked == [tracked |-> FALSE, price |-> 0, paid |-> 0, stopLossPrice |-> 0]

(* currentPrice * (1 - this.lossLimit) *)
StopLossOf(price) == (price * (100 - LossLimitPercent)) \div 100

(* sell, lines 67-68: currentPrice > tradeResult.price * 1.01 *)
AboveNoLossPrice(memo, cur) == 100 * cur > 101 * memo.price

(* mutant: the new stop-loss price replaces the old one *)
KeptStopLoss_Replace(stopLossPrice, cur) == StopLossOf(cur)

(* stopLossSell, lines 111-112 *)
KeptStopLoss(stopLossPrice, cur) ==
  IF stopLossPrice < StopLossOf(cur)
  THEN StopLossOf(cur) ELSE stopLossPrice

(* V2Trader.buy: the store after it *)
StopLossBuy(memo, price, ok) ==
  IF memo.tracked \/ ~ok THEN memo
  ELSE [ tracked |-> TRUE, price |-> price, paid |-> price,
         stopLossPrice |-> StopLossOf(price) ]

(* V2Trader.sell: the store after it and whether the gateway was called *)
ManualSellOf(memo, cur, ok) ==
  IF ~memo.tracked \/ AboveNoLossPrice(memo, cur)
  THEN [ memo |-> memo, called |-> FALSE ]
  ELSE [ memo |-> IF ok THEN NoTracked
                  ELSE [memo EXCEPT !.stopLossPrice = MAX_SAFE_INTEGER],
         called |-> TRUE ]

(* V2Trader.stopLossSell *)
StopLossSellOf(memo, cur, ok) ==
  IF ~memo.tracked THEN [ memo |-> memo, called |-> FALSE ]
  ELSE IF cur <= memo.stopLossPrice
  THEN [ memo |-> IF ok THEN NoTracked ELSE memo, called |-> TRUE ]
  ELSE [ memo |-> [memo EXCEPT !.stopLossPrice =
                     KeptStopLoss(@, cur)],
         called |-> FALSE ]

InitStopLoss ==
  /\ trades = NoTrades
  /\ storedConfig = DefaultConfig
  /\ config = DefaultConfig
  /\ canInvest = 0
  /\ balance = 0
  /\ optimalInvestRatio = 0
  /\ feed = [c \in Coins |-> NoPrice]
  /\ pc = "stoploss"
  /\ queue = <<>>
  /\ cycle = 0
  /\ calls = <<>>
  /\ stats = [n |-> 0, total |-> 0]
  /\ isNode = FALSE
  /\ last = NoLast
  /\ start = NoStart
  /\ sellFailed = {}
  /\ sl = [ engine |-> "stoploss", op |-> "init", memo |-> NoTracked,
            before |-> NoTracked, currentPrice |-> 0, called |-> FALSE,
            ok |-> FALSE, manual |-> 0, watching |-> FALSE, n |-> 0 ]

(* buy(symbol, quantity), lines 32-57 *)
StopLossBuyCall ==
  /\ pc = "stoploss"
  /\ ~sl.memo.tracked
  /\ sl.op = "init"
  /\ \E price \in {10000}, ok \in BOOLEAN :
       LET memo == StopLossBuy(sl.memo, price, ok)
       IN  sl' = [sl EXCEPT !.op = "buy", !.memo = memo, !.before = sl.memo,
                            !.currentPrice = price, !.called = TRUE,
                            !.ok = ok, !.manual = 0,
                            !.watching = memo.tracked]
  /\ UNCHANGED <<trades, storedConfig, config, canInvest, balance,
                 optimalInvestRatio, feed, pc, queue, cycle, calls, stats,
                 isNode, last, start, sellFailed>>

(* sell(symbol), lines 59-87; manual: the stop-loss price the record had   *)
(* before a manual sell that reached the gateway and failed                *)
ManualSell ==
  /\ pc = "stoploss"
  /\ sl.memo.tracked
  /\ sl.n < MaxStopLossCalls
  /\ \E price \in StopLossPrices, ok \in BOOLEAN :
       LET r == ManualSellOf(sl.memo, price, ok)
       IN  sl' = [sl EXCEPT !.op = "sell", !.memo = r.memo,
                            !.before = sl.memo, !.currentPrice = price,
                            !.called = r.called, !.ok = r.called /\ ok,
                            !.manual = IF r.called /\ ~ok /\ sl.manual = 0
                                       THEN sl.memo.stopLossPrice
                                       ELSE IF r.memo.tracked THEN @ ELSE 0,
                            !.n = @ + 1]
  /\ UNCHANGED <<trades, storedConfig, config, canInvest, balance,
                 optimalInvestRatio, feed, pc, queue, cycle, calls, stats,
                 isNode, last, start, sellFailed>>

(* stopLoss(), lines 17-30: stopLossSell for the tracked asset; the        *)
(* watcher is stopped if there was none to watch                           *)
StopLossPass ==
  /\ pc = "stoploss"
  /\ sl.op # "init"
  /\ sl.watching
  /\ sl.n < MaxStopLossCalls
  /\ \E price \in StopLossPrices, ok \in BOOLEAN :
       LET r == StopLossSellOf(sl.memo, price, ok)
       IN  sl' = [sl EXCEPT !.op = "pass", !.memo = r.memo,
                            !.before = sl.memo, !.currentPrice = price,
                            !.called = r.called, !.ok = r.called /\ ok,
                            !.manual = IF r.memo.tracked THEN @ ELSE 0,
                            !.watching = sl.memo.tracked,
                            !.n = @ + 1]
  /\ UNCHANGED <<trades, storedConfig, config, canInvest, balance,
                 optimalInvestRatio, feed, pc, queue, cycle, calls, stats,
                 isNode, last, start, sellFailed>>

NextStopLoss == StopLossBuyCall \/ ManualSell \/ StopLossPass

SpecStopLoss == InitStopLoss /\ [][NextStopLoss]_vars

(* a manual sell calls the gateway only at or under paid price * 1.01,     *)
(* removes the record only on success and keeps it on failure              *)
ManualSellGuarded ==
  (sl.op = "sell" /\ sl.before.tracked) =>
    /\ sl.called => 100 * sl.currentPrice <= 101 * sl.before.price
    /\ ~sl.memo.tracked <=> (sl.called /\ sl.ok)

(* a pass that keeps the asset leaves max(old, currentPrice * (1 - L)) *)
PassKeepsOrRaises ==
  (sl.op = "pass" /\ sl.before.tracked /\ ~sl.called) =>
    /\ sl.memo.tracked
    /\ sl.memo.stopLossPrice >= sl.before.stopLossPrice
    /\ sl.memo.stopLossPrice >= StopLossOf(sl.currentPrice)
    /\ sl.memo.stopLossPrice \in {sl.before.stopLossPrice,
                                  StopLossOf(sl.currentPrice)}

(* C36 as stated: in the stop-loss trader, a manual sell(symbol) calls the *)
(* gateway only when currentPrice <= paid price * 1.01 and removes the     *)
(* tracked record only when the gateway reports success; if that market    *)
(* sell fails the record stays tracked, and the stop-loss pass that        *)
(* follows sells the asset only when currentPrice <= the stop-loss price   *)
(* the record had before the manual sell, whose value is otherwise         *)
(* non-decreasing from pass to pass (max of the old value and              *)
(* currentPrice * (1 - LossLimit)).                                        *)
C36_PassSellsAtEarlierStopLoss ==
  /\ ManualSellGuarded
  /\ PassKeepsOrRaises
  /\ (sl.op = "pass" /\ sl.called) =>
       sl.currentPrice <= IF sl.manual # 0 THEN sl.manual
                          ELSE sl.before.stopLossPrice

(* C36, amended: a manual sell(symbol) calls the gateway only when         *)
(* currentPrice <= paid price * 1.01 and removes the tracked record only   *)
(* when the gateway reports success; if that market sell fails the record  *)
(* stays tracked with its stop-loss price set to Number.MAX_SAFE_INTEGER,  *)
(* so that the stop-loss pass that follows calls the gateway to sell the   *)
(* asset at any price; a pass sells exactly when currentPrice <= the       *)
(* stored stop-loss price, whose value is otherwise non-decreasing from    *)
(* pass to pass (max of the old value and currentPrice * (1 - LossLimit)). *)
C36_FailedManualSellForcesPass ==
  /\ ManualSellGuarded
  /\ PassKeepsOrRaises
  /\ (sl.op = "sell" /\ sl.called /\ ~sl.ok) =>
       /\ sl.memo.tracked
       /\ sl.memo.stopLossPrice = MAX_SAFE_INTEGER
  /\ (sl.op = "pass" /\ sl.before.tracked) =>
       /\ sl.called <=> sl.currentPrice <= sl.before.stopLossPrice
       /\ sl.manual # 0 => sl.called

(* C36 witness: after a failed manual sell the pass sells at a price above *)
(* the stop-loss price the record had                                      *)
C36_Witness ==
  /\ sl.op = "pass"
  /\ sl.called
  /\ sl.ok
  /\ ~sl.memo.tracked
  /\ sl.before.stopLossPrice = MAX_SAFE_INTEGER
  /\ sl.currentPrice = 10600

====
